---------------------------- MODULE Spec2Model ----------------------------
(***************************************************************************)
(* A model of vertex/q2q.py: the Q2Q overlay connection, its command       *)
(* handlers, the virtual-channel multiplex and the Q2QService tables.      *)
(*                                                                         *)
(* Strings whose content matters (addresses, common names) are sequences   *)
(* of one-character strings, so that concatenation and splitting are       *)
(* computed, not assumed.  An optional value is a sequence of length 0     *)
(* (None) or 1 (the value).                                                *)
(***************************************************************************)
EXTENDS Integers, Sequences, FiniteSets, TLC

VARIABLES
    \* ---- _endeferify (one dial chain) ----
    funcsAndArgs,   \* the list handed to _endeferify: the outcome of each attempt
    stuff,          \* position of the iterator `stuff` (attempts consumed so far)
    failureChain,   \* the failureChain list
    dialPc,         \* "idle" | "waiting" | "done"
    dialResult,     \* what the returned Deferred fired with
    dialStarted,    \* indices of the attempts that were called, in call order
    \* ---- one call of Q2Q.verifyCertificateAllowed ----
    vAuthorized,    \* self.authorized
    vOurCert,       \* self.hostCertificate
    vPeerCert,      \* Certificate.peerFromTransport(self.transport)
    vOurAddress,    \* the ourAddress argument
    vTheirAddress,  \* the theirAddress argument
    vResult         \* "none" before the call, then "ok" or "VerifyError"

dialVars == <<funcsAndArgs, stuff, failureChain, dialPc, dialResult, dialStarted>>
verifyVars == <<vAuthorized, vOurCert, vPeerCert, vOurAddress, vTheirAddress, vResult>>

None == <<>>
Some(x) == <<x>>

-----------------------------------------------------------------------------
(***************************************************************************)
(* _endeferify: call the attempts in turn, first success wins.             *)
(***************************************************************************)

MaxAttempts == 3

\* What one (func, args, kw) tuple does when called: its Deferred succeeds
\* with a protocol or fails with a reason.
Outcomes ==
    { [ok |-> TRUE,  v |-> "protoA"], [ok |-> TRUE,  v |-> "protoB"],
      [ok |-> FALSE, v |-> "refused"], [ok |-> FALSE, v |-> "timedOut"] }

AttemptLists == UNION { [1..n -> Outcomes] : n \in 0..MaxAttempts }

Pending == [kind |-> "pending", value |-> "", reasons |-> <<>>]
Succeeded(v) == [kind |-> "success", value |-> v, reasons |-> <<>>]
Failed(kind, chain) == [kind |-> kind, value |-> "", reasons |-> chain]

\* _fcrecurse with the failure dropped instead of appended.
fcrecurse_forgets(chain, f) == chain

\* _fcrecurse: failureChain.append(f)
fcrecurse(chain, f) == Append(chain, f)

\* The body of _endeferify, called with `chain` as failureChain; `first` is
\* "failureChain is None".
Endeferify(chain, first) ==
    IF first /\ Len(funcsAndArgs) = 0
    THEN /\ dialResult' = Failed("NoAttemptsMade", <<>>)
         /\ dialPc' = "done"
         /\ failureChain' = chain
         /\ UNCHANGED <<stuff, dialStarted, funcsAndArgs>>
    ELSE IF stuff = Len(funcsAndArgs)            \* stuff.next() raises StopIteration
    THEN /\ dialResult' = Failed("AttemptsFailed", chain)
         /\ dialPc' = "done"
         /\ failureChain' = chain
         /\ UNCHANGED <<stuff, dialStarted, funcsAndArgs>>
    ELSE /\ stuff' = stuff + 1
         /\ dialStarted' = Append(dialStarted, stuff + 1)
         /\ dialPc' = "waiting"
         /\ failureChain' = chain
         /\ UNCHANGED <<dialResult, funcsAndArgs>>

\* The caller's _endeferify(funcsAndArgs)
DialCall ==
    /\ dialPc = "idle"
    /\ Endeferify(<<>>, TRUE)

\* The Deferred of the attempt in flight fires its callback chain: D itself
\* carries the result.
AttemptSucceeds ==
    /\ dialPc = "waiting"
    /\ funcsAndArgs[stuff].ok
    /\ dialResult' = Succeeded(funcsAndArgs[stuff].v)
    /\ dialPc' = "done"
    /\ UNCHANGED <<funcsAndArgs, stuff, failureChain, dialStarted>>

\* The Deferred of the attempt in flight fails: _fcrecurse
AttemptFails ==
    /\ dialPc = "waiting"
    /\ ~funcsAndArgs[stuff].ok
    /\ Endeferify(fcrecurse(failureChain, funcsAndArgs[stuff].v), FALSE)

DialStart(fs) ==
    /\ funcsAndArgs = fs
    /\ stuff = 0
    /\ failureChain = <<>>
    /\ dialPc = "idle"
    /\ dialResult = Pending
    /\ dialStarted = <<>>

-----------------------------------------------------------------------------
(***************************************************************************)
(* Q2QAddress, certificates' common names, verifyCertificateAllowed.       *)
(***************************************************************************)

Q2QAddress(domain, resource) == [domain |-> domain, resource |-> resource]

\* Q2QAddress.__str__: "resource@domain" when resource is truthy (neither
\* None nor ''), else the bare domain.
Str(a) ==
    IF a.resource # None /\ a.resource[1] # <<>>
    THEN a.resource[1] \o <<"@">> \o a.domain
    ELSE a.domain

\* Q2QAddress.domainAddress
domainAddress(a) ==
    IF a.resource = None THEN a ELSE Q2QAddress(a.domain, None)

\* A certificate, as far as the name checks see it.
Cert(issuer, subject) == [issuer |-> issuer, subject |-> subject]

claimedAsIssuerOf(a, cert) == cert.issuer = Str(a)
claimedAsSubjectOf(a, cert) == cert.subject = Str(a)

\* verifyCertificateAllowed with the peer-certificate tests as three
\* independent ifs instead of if/elif/elif.
verifyCertificateAllowed_noElif(authorized, ourCert, peerCert, ourAddress, theirAddress) ==
    IF ~authorized
    THEN IF theirAddress.domain = <<>> THEN "ok" ELSE "VerifyError"
    ELSE
      LET ourClaimedDomain == domainAddress(ourAddress)
          theirClaimedDomain == domainAddress(theirAddress)
      IN IF ~claimedAsIssuerOf(ourClaimedDomain, ourCert) THEN "VerifyError"
         ELSE IF claimedAsIssuerOf(theirClaimedDomain, peerCert)
                 /\ (claimedAsSubjectOf(theirAddress, peerCert)
                     \/ claimedAsSubjectOf(theirClaimedDomain, peerCert))
              THEN "ok"
         ELSE IF claimedAsIssuerOf(ourClaimedDomain, peerCert) THEN "ok"
         ELSE IF claimedAsIssuerOf(ourAddress, peerCert) THEN "ok"
         ELSE "VerifyError"

\* Q2Q.verifyCertificateAllowed: "ok" for a normal return, "VerifyError"
\* for the raise.
verifyCertificateAllowed(authorized, ourCert, peerCert, ourAddress, theirAddress) ==
    IF ~authorized
    THEN IF theirAddress.domain = <<>> THEN "ok" ELSE "VerifyError"
    ELSE
      LET ourClaimedDomain == domainAddress(ourAddress)
          theirClaimedDomain == domainAddress(theirAddress)
      IN IF ~claimedAsIssuerOf(ourClaimedDomain, ourCert) THEN "VerifyError"
         ELSE IF claimedAsIssuerOf(theirClaimedDomain, peerCert)
              THEN IF claimedAsSubjectOf(theirAddress, peerCert)
                      \/ claimedAsSubjectOf(theirClaimedDomain, peerCert)
                   THEN "ok"
                   ELSE "VerifyError"      \* falls through to the final raise
         ELSE IF claimedAsIssuerOf(ourClaimedDomain, peerCert) THEN "ok"
         ELSE IF claimedAsIssuerOf(ourAddress, peerCert) THEN "ok"
         ELSE "VerifyError"

\* The names the checked calls range over.
VDomains == { <<>>, <<"d">>, <<"e">> }
VResources == { None, Some(<<>>), Some(<<"u">>) }
VAddresses == { Q2QAddress(d, r) : d \in VDomains, r \in VResources }
VNames == { <<"d">>, <<"e">>, <<"u", "@", "d">>, <<"v", "@", "d">>, <<"@">> }
\* Certificates this side may be presenting: a domain's self-signed one, a
\* user certificate issued by its domain, the anonymous one.
VOurCerts ==
    { Cert(<<"d">>, <<"d">>), Cert(<<"e">>, <<"e">>),
      Cert(<<"d">>, <<"u", "@", "d">>), Cert(<<"@">>, <<"@">>) }
VPeerCerts == { Cert(i, s) : i \in VNames, s \in VNames }

VerifyStart ==
    /\ vAuthorized \in BOOLEAN
    /\ vOurCert \in VOurCerts
    /\ vPeerCert \in VPeerCerts
    /\ vOurAddress \in VAddresses
    /\ vTheirAddress \in VAddresses
    /\ vResult = "none"

VerifyIdle ==
    /\ vAuthorized = FALSE
    /\ vOurCert = Cert(<<"d">>, <<"d">>)
    /\ vPeerCert = Cert(<<"@">>, <<"@">>)
    /\ vOurAddress = Q2QAddress(<<"d">>, None)
    /\ vTheirAddress = Q2QAddress(<<>>, Some(<<>>))
    /\ vResult = "none"

\* A command handler calls self.verifyCertificateAllowed(ourAddress, theirAddress)
VerifyCall ==
    /\ vResult = "none"
    /\ vResult' = verifyCertificateAllowed(vAuthorized, vOurCert, vPeerCert,
                                           vOurAddress, vTheirAddress)
    /\ UNCHANGED <<vAuthorized, vOurCert, vPeerCert, vOurAddress, vTheirAddress>>

-----------------------------------------------------------------------------
(***************************************************************************)
(* The Q2Q protocol objects, the VirtualTransports and the Q2QService      *)
(* tables.  "c1" and "c2" are the server-side Q2Q objects of one           *)
(* Q2QService S (built by Q2QService.buildProtocol); "p1" is the Q2Q       *)
(* object at the other end of c1's connection, in the client's process.    *)
(***************************************************************************)

VARIABLES
    connState,            \* [Q2Q -> "open" | "lost"]: before/after Q2Q.connectionLost
    sec,                  \* [Q2Q -> [authorized, hostCertificate, peerCert]]
    publicIP,             \* [Q2Q -> optional string]: Q2Q.publicIP
    listeningClient,      \* [Q2Q -> Seq(<<key, value>>)]: Q2Q.listeningClient
    connections,          \* [Q2Q -> [channel id -> index into vts]]: Q2Q.connections
    connectionObservers,  \* [Q2Q -> Seq(observer)]: Q2Q.connectionObservers
    listened,             \* history: [Q2Q -> number of registrations LISTEN made on it]
    vts,                  \* every VirtualTransport object built so far
    service,              \* configuration fields of S: publicIP, _publicIPIsReallyPrivate,
                          \*   inboundTCPPort, dispatcher, factories (localFactoriesMapping
                          \*   and protocolFactoryFactory), running
    listeningClients,     \* S.listeningClients: [key -> Seq(value)]
    inboundConnections,   \* S.inboundConnections: [channel id -> _ConnectionWaiter]
    timers,               \* the reactor.callLater calls of mapListener:
                          \*   [channel id -> "pending" | "cancelled" | "fired"]
    lastConnID,           \* S._lastConnID
    natSeeds,             \* what S.dispatcher was asked to seed or bind
    inbound,              \* the INBOUND command waiting for its relayed replies, if any
    lastReply,            \* the last INBOUND answer sent
    lastClaim,            \* history: the last VIRTUAL / direct-splice claim handled
    wire                  \* [Q2Q -> Seq(box)]: the boxes on their way to a Q2Q object,
                          \*   in the order its peer sent them

connVars == <<connState, sec, publicIP, listeningClient, connections,
              connectionObservers, listened, vts>>
svcVars == <<service, listeningClients, inboundConnections, timers, lastConnID,
             natSeeds, inbound, lastReply, lastClaim>>

virtVars == <<wire>>

Q2Qs == {"c1", "c2", "p1"}
Servers == {"c1", "c2"}

\* The Q2Q object at the other end of the connection of p1 or c1.
peer(q) == IF q = "p1" THEN "c1" ELSE "p1"

\* dict[k] = v, and dict without k
Put(f, k, v) == [x \in (DOMAIN f) \cup {k} |-> IF x = k THEN v ELSE f[x]]
Pop(f, k) == [x \in (DOMAIN f) \ {k} |-> f[x]]
EmptyDict == [x \in {} |-> 0]

\* list.remove(value) that removes nothing.
ListRemove_keeps(s, v) == s

\* list.remove(value): drops the first element equal to value.  The value
\* is present at every call the model makes (ValueError is not modelled).
ListRemove(s, v) ==
    IF \E i \in 1..Len(s) : s[i] = v
    THEN LET i == CHOOSE i \in 1..Len(s) : s[i] = v /\ \A j \in 1..(i-1) : s[j] # v
         IN SubSeq(s, 1, i-1) \o SubSeq(s, i+1, Len(s))
    ELSE s

\* The addresses, names and certificates of the service scenarios.
DomainD == Q2QAddress(<<"d">>, None)
Alice == Q2QAddress(<<"d">>, Some(<<"a">>))
Bob == Q2QAddress(<<"d">>, Some(<<"b">>))
Anonymous == Q2QAddress(<<>>, Some(<<>>))
DomainCert == Cert(<<"d">>, <<"d">>)
AliceCert == Cert(<<"d">>, <<"a", "@", "d">>)
BobCert == Cert(<<"d">>, <<"b", "@", "d">>)
AnonymousCert == Cert(<<"@">>, <<"@">>)
\* Another self-signed certificate with the names of the domain: the same
\* subject and issuer as DomainCert, another key pair.
OtherDomainCert == [issuer |-> <<"d">>, subject |-> <<"d">>, keyPair |-> "other"]
Echo == <<"e">>               \* an application protocol name
Chat == <<"c">>               \* another one
Internal == <<".", "s">>      \* a protocol name starting with '.'

\* A protocol factory as far as the handlers see it: whether buildProtocol
\* raises, and whether the protocol it builds raises in connectionLost or
\* in dataReceived.
Factory(name, buildRaises, lostRaises, dataRaises) ==
    [name |-> name, buildRaises |-> buildRaises, lostRaises |-> lostRaises,
     dataRaises |-> dataRaises]
GoodFactory == Factory("good", FALSE, FALSE, FALSE)
RaisingFactory == Factory("raising", TRUE, FALSE, FALSE)
SulkyFactory == Factory("sulky", FALSE, TRUE, FALSE)
FussyFactory == Factory("fussy", FALSE, FALSE, TRUE)

\* ---- connection methods ----
Method(kind, host, p) == [kind |-> kind, host |-> host, port |-> p]
VirtualMethod == Method("virtual", "", "")
UnknownMethod == Method("unknown", "", "")

\* the class attribute `relayable` with VirtualMethod relayable too
relayable_all(m) == TRUE

\* the class attribute `relayable`
relayable(m) == m.kind # "virtual"

\* Q2Q._determinePrivateIP: the local host of the transport
determinePrivateIP(q) == "priv"

\* Q2Q._determinePublicIP
determinePublicIP(q) ==
    LET reservePublicIP ==
            IF service.publicIP # None /\ service.reallyPrivate
            THEN service.publicIP ELSE None
    IN IF service.publicIP # None /\ ~service.reallyPrivate THEN service.publicIP[1]
       ELSE IF publicIP[q] # None THEN publicIP[q][1]
       ELSE IF reservePublicIP # None THEN reservePublicIP[1]
       ELSE determinePrivateIP(q)

\* Q2QService.getLocalFactories: localFactoriesMapping.get((to, protocolName), ())
\* followed by protocolFactoryFactory(From, to, protocolName)
getLocalFactories(From, to, protocolName) ==
    IF <<to, protocolName>> \in DOMAIN service.factories
    THEN service.factories[<<to, protocolName>>]
    ELSE <<>>

\* ---- reservations ----
ReservationTimeout == 120

\* Q2QService._nextConnectionID: '%s->%s:%s' % (From, to, lcid), kept as
\* its three parts.
nextConnectionID(From, to, lcid) == <<Str(From), Str(to), lcid>>

ConnectionWaiter(From, to, protocolName, protocolFactory, isClient) ==
    [From |-> From, to |-> to, protocolName |-> protocolName,
     protocolFactory |-> protocolFactory, isClient |-> isClient]

\* The tables a handler works on, threaded through its calls.
Tables == [inboundConnections |-> inboundConnections, timers |-> timers,
           lastConnID |-> lastConnID]

\* mapListener whose _nextConnectionID does not count.
mapListener_sameId(t, to, From, protocolName, protocolFactory) ==
    LET listenerID == nextConnectionID(From, to, t.lastConnID) IN
    [inboundConnections |->
         Put(t.inboundConnections, listenerID,
             ConnectionWaiter(From, to, protocolName, protocolFactory, FALSE)),
     timers |-> Put(t.timers, listenerID, "pending"),
     lastConnID |-> t.lastConnID]

\* Q2QService.mapListener on tables t: a new id, its 120 s timer, its entry.
mapListener(t, to, From, protocolName, protocolFactory) ==
    LET listenerID == nextConnectionID(From, to, t.lastConnID) IN
    [inboundConnections |->
         Put(t.inboundConnections, listenerID,
             ConnectionWaiter(From, to, protocolName, protocolFactory, FALSE)),
     timers |-> Put(t.timers, listenerID, "pending"),
     lastConnID |-> t.lastConnID + 1]

\* call.cancel() on the delayed call of reservation id
cancel(tm, id) == [tm EXCEPT ![id] = "cancelled"]

\* the delayed call that does nothing when it runs
expire_keeps(table, id) == table

\* the delayed call of mapListener: self.inboundConnections.pop(listenerID, None)
expire(table, id) == Pop(table, id)

-----------------------------------------------------------------------------
(***************************************************************************)
(* VirtualTransport.                                                       *)
(***************************************************************************)

\* VirtualTransport.__init__, the object: `started` is "self.protocol is
\* set"; `asking` is "the Deferred of the close command sent by
\* loseConnection has not fired".  The other fields are history: told and
\* protoLost count the calls of connectionLost on the transport and on its
\* protocol; sent is the data given to write() and sentAtClose its length
\* when loseConnection was called (-1 before); recv is the data given to
\* the protocol; seen counts the WRITE commands for the id that the owner
\* has handled and seenAtClose is that count when it handled the CLOSE
\* command for the id (-1 before).
VirtualTransport(q2q, id, protocolFactory, isClient) ==
    [q2q |-> q2q, id |-> id, protocolFactory |-> protocolFactory,
     isClient |-> isClient, started |-> FALSE, disconnecting |-> FALSE,
     asking |-> FALSE, closes |-> 0, closeCalls |-> 0, told |-> 0, protoLost |-> 0,
     recv |-> <<>>, sent |-> <<>>,
     sentAtClose |-> -1, seen |-> 0, seenAtClose |-> -1]

\* The objects a handler works on, threaded through its calls; `raised`
\* tells whether the last call raised.
Objects == [connections |-> connections, vts |-> vts, raised |-> FALSE]

\* VirtualTransport.__init__ that does not register itself.
newVirtualTransport_unregistered(o, q2q, id, protocolFactory, isClient) ==
    [o EXCEPT !.vts = Append(o.vts, VirtualTransport(q2q, id, protocolFactory, isClient))]

\* VirtualTransport.__init__: self.q2q.connections[self.id] = self
newVirtualTransport(o, q2q, id, protocolFactory, isClient) ==
    [connections |-> [o.connections EXCEPT ![q2q] = Put(@, id, Len(o.vts) + 1)],
     vts |-> Append(o.vts, VirtualTransport(q2q, id, protocolFactory, isClient)),
     raised |-> FALSE]

\* VirtualTransport.startProtocol: buildProtocol, then makeConnection
startProtocol(o, i) ==
    IF o.vts[i].protocolFactory.buildRaises
    THEN [o EXCEPT !.raised = TRUE]
    ELSE [o EXCEPT !.vts[i].started = TRUE, !.raised = FALSE]

\* VirtualTransport.connectionLost that leaves the entry in connections.
vtConnectionLost_keepsEntry(o, i) ==
    LET v == o.vts[i] IN
    IF ~v.started THEN [o EXCEPT !.vts[i].told = @ + 1, !.raised = TRUE]
    ELSE [o EXCEPT !.vts[i].told = @ + 1, !.vts[i].protoLost = @ + 1,
                   !.raised = v.protocolFactory.lostRaises]

\* VirtualTransport.connectionLost: del self.q2q.connections[self.id]
\* (KeyError when absent), self.protocol.connectionLost(reason)
\* (AttributeError when startProtocol has not run), then
\* clientConnectionLost on the factory.
vtConnectionLost(o, i) ==
    LET v == o.vts[i] IN
    IF v.id \notin DOMAIN o.connections[v.q2q]
    THEN [o EXCEPT !.vts[i].told = @ + 1, !.raised = TRUE]
    ELSE LET d == [o EXCEPT !.connections[v.q2q] = Pop(@, v.id),
                            !.vts[i].told = @ + 1]
         IN IF ~v.started THEN [d EXCEPT !.raised = TRUE]
            ELSE [d EXCEPT !.vts[i].protoLost = @ + 1,
                           !.raised = v.protocolFactory.lostRaises]

\* safely() that lets the exception through.
safely_reraises(raised) == raised

\* safely(f, *a): whether an exception raised by f escapes the call.
safely(raised) == FALSE

RECURSIVE SetToSeq(_)
\* dict.values() as a list (here in the order the transports were built)
SetToSeq(S) ==
    IF S = {} THEN <<>>
    ELSE LET m == CHOOSE m \in S : \A n \in S : m <= n
         IN <<m>> \o SetToSeq(S \ {m})

RECURSIVE loseTransports(_, _)
\* for xport in self.connections.values(): safely(xport.connectionLost, reason)
\* `raised` of the result: an exception escaped and ended the loop.
loseTransports(o, xports) ==
    IF xports = <<>> THEN [o EXCEPT !.raised = FALSE]
    ELSE LET r == vtConnectionLost(o, Head(xports)) IN
         IF safely(r.raised) THEN [r EXCEPT !.raised = TRUE]
         ELSE loseTransports(r, Tail(xports))

\* A connection observer: whether it raises, and (history) how often it ran.
Observer(raises) == [raises |-> raises, calls |-> 0]

RECURSIVE callObservers(_, _)
\* for observer in self.connectionObservers: safely(observer)
\* from position k on; an escaping exception ends the loop.
callObservers(obs, k) ==
    IF k > Len(obs) THEN obs
    ELSE LET called == [obs EXCEPT ![k].calls = @ + 1] IN
         IF safely(obs[k].raises) THEN called
         ELSE callObservers(called, k + 1)

RECURSIVE unregister(_, _)
\* for key, value in self.listeningClient:
\*     self.service.listeningClients[key].remove(value)
unregister(registry, mine) ==
    IF mine = <<>> THEN registry
    ELSE LET key == Head(mine)[1]
             value == Head(mine)[2]
         IN unregister([registry EXCEPT ![key] = ListRemove(@, value)], Tail(mine))

RECURSIVE closesOutstanding(_)
\* The close commands still waiting for their answer, as the transports
\* that sent them: each transport of xports once per such command.
closesOutstanding(xports) ==
    IF xports = <<>> THEN <<>>
    ELSE [k \in 1..vts[Head(xports)].closes |-> Head(xports)]
         \o closesOutstanding(Tail(xports))

RECURSIVE failAllOutgoing(_, _)
\* juice.Juice.connectionLost(self, reason): the Deferred of every command
\* still waiting for its answer fails.  For the close command of
\* loseConnection the errback is VirtualTransport.connectionLost; what it
\* raises stays in the Deferred.
failAllOutgoing(o, xports) ==
    IF xports = <<>> THEN [o EXCEPT !.raised = FALSE]
    ELSE failAllOutgoing(
             [vtConnectionLost(o, Head(xports)) EXCEPT !.vts[Head(xports)].asking = FALSE,
                                                       !.vts[Head(xports)].closes = 0],
             Tail(xports))

\* Q2Q.connectionLost.  What was on its way to q is not read any more.
ConnectionLost(q) ==
    /\ connState[q] = "open"
    /\ connState' = [connState EXCEPT ![q] = "lost"]
    /\ listeningClients' = unregister(listeningClients, listeningClient[q])
    /\ listeningClient' = [listeningClient EXCEPT ![q] = <<>>]
    /\ wire' = [wire EXCEPT ![q] = <<>>]
    /\ LET f == failAllOutgoing(Objects,
                    closesOutstanding(SetToSeq({i \in 1..Len(vts) :
                                                   vts[i].q2q = q /\ vts[i].asking})))
           o == loseTransports(f, SetToSeq({f.connections[q][id] :
                                               id \in DOMAIN f.connections[q]}))
       IN /\ connections' = o.connections
          /\ vts' = o.vts
          /\ connectionObservers' =
                 IF o.raised THEN connectionObservers
                 ELSE [connectionObservers EXCEPT ![q] = callObservers(@, 1)]
    /\ UNCHANGED <<sec, publicIP, listened, service, inboundConnections, timers,
                   lastConnID, natSeeds, inbound, lastReply, lastClaim>>

\* Q2Q.notifyOnConnectionLost
MaxObservers == 2

notifyOnConnectionLost(q, observer) ==
    /\ connState[q] = "open"
    /\ Len(connectionObservers[q]) < MaxObservers
    /\ connectionObservers' = [connectionObservers EXCEPT ![q] = Append(@, observer)]
    /\ UNCHANGED <<connState, sec, publicIP, listeningClient, connections, listened,
                   vts, svcVars>>

-----------------------------------------------------------------------------
(***************************************************************************)
(* The command handlers of a server-side Q2Q object.                       *)
(***************************************************************************)

\* What a handler answered: the command, the connection, "ok" or the error
\* kind, for INBOUND the listeners list, for LISTEN the protocols asked.
Answer(cmd, q, kind, listeners) ==
    [cmd |-> cmd, conn |-> q, kind |-> kind, listeners |-> listeners,
     protocols |-> <<>>]
ListenAnswer(q, kind, protocols) ==
    [Answer("listen", q, kind, <<>>) EXCEPT !.protocols = protocols]
NoAnswer == Answer("", "", "", <<>>)

\* MethodsList.toString of the methods of one entry: x.toString() for each
\* method; UnknownMethod has no toString (AttributeError).
methodsToStringRaises(methods) ==
    \E k \in 1..Len(methods) : methods[k].kind = "unknown"

\* The answer to INBOUND once the handler has returned dict(listeners=result):
\* the box is built from the response arguments, and fails to be built
\* when a method cannot be written.
inboundAnswer(q, result) ==
    Answer("inbound", q,
           IF \E k \in 1..Len(result) : methodsToStringRaises(result[k].methods)
           THEN "AttributeError" ELSE "ok",
           result)

\* self.verifyCertificateAllowed on connection q
verifyOn(q, ourAddress, theirAddress) ==
    verifyCertificateAllowed(sec[q].authorized, sec[q].hostCertificate,
                             sec[q].peerCert, ourAddress, theirAddress)

\* The test for internal protocol names left out.
startswithDot_never(protocolName) == FALSE

\* protocolName.startswith('.')
startswithDot(protocolName) == Len(protocolName) > 0 /\ protocolName[1] = "."

RECURSIVE listenLoop(_, _, _, _, _)
\* the for loop of command_LISTEN over the protocols still to register;
\* l = [mine, registry, raised]
listenLoop(l, q, From, description, protocols) ==
    IF protocols = <<>> THEN l
    ELSE LET protocolName == Head(protocols) IN
         IF startswithDot(protocolName) THEN [l EXCEPT !.raised = TRUE]
         ELSE LET key == <<From, protocolName>>
                  value == [conn |-> q, cert |-> sec[q].peerCert,
                            description |-> description]
                  old == IF key \in DOMAIN l.registry THEN l.registry[key] ELSE <<>>
              IN listenLoop([mine |-> Append(l.mine, <<key, value>>),
                             registry |-> Put(l.registry, key, Append(old, value)),
                             raised |-> FALSE],
                            q, From, description, Tail(protocols))

MaxListen == 2

\* Q2Q.command_LISTEN
command_LISTEN(q, protocols, From, description) ==
    /\ connState[q] = "open"
    /\ Len(listeningClient[q]) + Len(protocols) <= MaxListen
    /\ IF verifyOn(q, From, From) = "VerifyError"
       THEN /\ lastReply' = ListenAnswer(q, "VerifyError", protocols)
            /\ UNCHANGED <<listeningClient, listeningClients, listened>>
       ELSE LET l == listenLoop([mine |-> listeningClient[q],
                                 registry |-> listeningClients, raised |-> FALSE],
                                q, From, description, protocols)
            IN /\ listeningClient' = [listeningClient EXCEPT ![q] = l.mine]
               /\ listeningClients' = l.registry
               /\ listened' = [listened EXCEPT
                                 ![q] = @ + Len(l.mine) - Len(listeningClient[q])]
               /\ lastReply' = ListenAnswer(q, IF l.raised THEN "VerifyError" ELSE "ok",
                                            protocols)
    /\ UNCHANGED <<connState, sec, publicIP, connections, connectionObservers, vts,
                   service, inboundConnections, timers, lastConnID, natSeeds,
                   inbound, lastClaim>>

\* The localMethods list without the virtual method at its end.
localMethods_noVirtual(q, udp_source) ==
    LET public == determinePublicIP(q)
        tcp == IF service.inboundTCPPort = None THEN <<>>
               ELSE <<Method("tcp", public, "tcpPort")>>
        udp == IF udp_source = None \/ ~service.dispatcher THEN <<>>
               ELSE <<Method("ptcp", public, "udpPort"),
                      Method("rptcp", public, "udpxPort")>>
    IN tcp \o udp

\* The localMethods list of command_INBOUND
localMethods(q, udp_source) ==
    LET public == determinePublicIP(q)
        private == determinePrivateIP(q)
        tcp == IF service.inboundTCPPort = None THEN <<>>
               ELSE <<Method("tcp", public, "tcpPort")>>
                    \o (IF public # private
                        THEN <<Method("tcp", private, "tcpPort")>> ELSE <<>>)
        udp == IF udp_source = None \/ ~service.dispatcher THEN <<>>
               ELSE (IF udp_source[1] = public /\ public # private
                     THEN <<Method("ptcp", private, "udpPort")>> ELSE <<>>)
                    \o <<Method("ptcp", public, "udpPort"),
                         Method("rptcp", public, "udpxPort")>>
    IN tcp \o udp \o <<VirtualMethod>>

\* One entry of the listeners list of an INBOUND answer.  `via` is history:
\* "local" for an entry built here, else the connection it was relayed from.
ListenerInfo(id, certificate, methods, description, via) ==
    [id |-> id, certificate |-> certificate, methods |-> methods,
     expires |-> ReservationTimeout, description |-> description, via |-> via]

RECURSIVE reserveAll(_, _, _, _, _, _)
\* for serverFactory, description in srvfacts: mapListener and result.append;
\* r = [tables, result]
reserveAll(r, srvfacts, From, to, protocol, methods) ==
    IF srvfacts = <<>> THEN r
    ELSE LET serverFactory == Head(srvfacts)[1]
             description == Head(srvfacts)[2]
             listenID == nextConnectionID(From, to, r.tables.lastConnID)
         IN reserveAll(
                [tables |-> mapListener(r.tables, to, From, protocol, serverFactory),
                 result |-> Append(r.result,
                     ListenerInfo(listenID, None, methods, description, "local"))],
                Tail(srvfacts), From, to, protocol, methods)

\* _massageClientInboundResponse that relays the certificate the client sent.
massageInfo_trusts(listenerInfo, listener) ==
    [listenerInfo EXCEPT !.methods = SelectSeq(@, relayable), !.via = listener]

\* _massageClientInboundResponse, one listenerInfo: the relayable methods,
\* and the peer certificate of the listener's transport.
massageInfo(listenerInfo, listener) ==
    [listenerInfo EXCEPT !.methods = SelectSeq(@, relayable),
                         !.certificate = Some(sec[listener].peerCert),
                         !.via = listener]

RECURSIVE massageClientInboundResponse(_, _, _)
\* Q2Q._massageClientInboundResponse(inboundResponse, listener, result)
massageClientInboundResponse(irl, listener, result) ==
    IF irl = <<>> THEN result
    ELSE LET listenerInfo == massageInfo(Head(irl), listener) IN
         massageClientInboundResponse(
             Tail(irl), listener,
             IF listenerInfo.methods # <<>> THEN Append(result, listenerInfo)
             ELSE result)

MaxConnID == 2

\* Q2Q.command_INBOUND, up to the answer or, with listening clients to
\* ask, up to the forwarded INBOUNDs.
command_INBOUND(q, From, to, protocol, udp_source) ==
    /\ connState[q] = "open"
    /\ inbound = None
    /\ lastConnID + Len(getLocalFactories(From, to, protocol)) <= MaxConnID + 1
    /\ IF verifyOn(q, to, From) = "VerifyError"
       THEN /\ lastReply' = Answer("inbound", q, "VerifyError", <<>>)
            /\ UNCHANGED <<inboundConnections, timers, lastConnID, natSeeds, inbound>>
       ELSE LET srvfacts == getLocalFactories(From, to, protocol)
                seeds == srvfacts # <<>> /\ udp_source # None /\ service.dispatcher
                r == reserveAll([tables |-> Tables, result |-> <<>>], srvfacts,
                                From, to, protocol, localMethods(q, udp_source))
                key == <<to, protocol>>
            IN /\ inboundConnections' = r.tables.inboundConnections
               /\ timers' = r.tables.timers
               /\ lastConnID' = r.tables.lastConnID
               /\ natSeeds' = IF seeds
                              THEN natSeeds \cup {<<"seedNAT", udp_source[1]>>,
                                                  <<"bindNewPort", "">>}
                              ELSE natSeeds
               /\ IF key \in DOMAIN listeningClients /\ listeningClients[key] # <<>>
                  THEN /\ inbound' = Some([conn |-> q, result |-> r.result,
                              listeners |-> [i \in 1..Len(listeningClients[key]) |->
                                                listeningClients[key][i].conn],
                              waiting |-> 1..Len(listeningClients[key])])
                       /\ UNCHANGED lastReply
                  ELSE /\ lastReply' = inboundAnswer(q, r.result)
                       /\ UNCHANGED inbound
    /\ UNCHANGED <<connVars, service, listeningClients, lastClaim>>

\* The answer of listener number i to the forwarded INBOUND arrives:
\* _massageClientInboundResponse, and allListenerResponses after the last one.
RelayedInboundAnswer(i, irl) ==
    /\ inbound # None
    /\ i \in inbound[1].waiting
    /\ connState[inbound[1].listeners[i]] = "open"
    /\ LET req == inbound[1]
           result == massageClientInboundResponse(irl, req.listeners[i], req.result)
       IN IF req.waiting = {i}
          THEN /\ lastReply' = inboundAnswer(req.conn, result)
               /\ inbound' = None
          ELSE /\ inbound' = Some([req EXCEPT !.result = result, !.waiting = @ \ {i}])
               /\ UNCHANGED lastReply
    /\ UNCHANGED <<connVars, service, listeningClients, inboundConnections, timers,
                   lastConnID, natSeeds, lastClaim>>

\* The forwarded INBOUND of listener number i fails (an error answer, or
\* its connection is lost): DeferredList records the failure and goes on.
RelayedInboundFails(i) ==
    /\ inbound # None
    /\ i \in inbound[1].waiting
    /\ LET req == inbound[1]
       IN IF req.waiting = {i}
          THEN /\ lastReply' = inboundAnswer(req.conn, req.result)
               /\ inbound' = None
          ELSE /\ inbound' = Some([req EXCEPT !.waiting = @ \ {i}])
               /\ UNCHANGED lastReply
    /\ UNCHANGED <<connVars, service, listeningClients, inboundConnections, timers,
                   lastConnID, natSeeds, lastClaim>>

\* listener.transport.getPeer().host: the host the client of a connection
\* is seen at.
peerHost(q) == IF q = "c1" THEN "client" ELSE "elsewhere"

\* command_BIND_UDP without its call of verifyCertificateAllowed.
command_BIND_UDP_unverified(q, q2qsrc, q2qdst, udpsrc, udpdst, protocol) ==
    /\ connState[q] = "open"
    /\ LET srchost == udpsrc[1]
           srcport == udpsrc[2]
           key == <<q2qsrc, protocol>>
           clients == IF key \in DOMAIN listeningClients
                      THEN listeningClients[key] ELSE <<>>
           binders == { i \in 1..Len(clients) : peerHost(clients[i].conn) = srchost }
       IN IF FALSE
          THEN /\ lastReply' = Answer("bind_udp", q, "VerifyError", <<>>)
               /\ UNCHANGED natSeeds
          ELSE IF /\ getLocalFactories(q2qdst, q2qsrc, protocol) # <<>>
                  /\ srchost = determinePublicIP(q)
          THEN IF service.dispatcher
               THEN /\ natSeeds' = natSeeds \cup {<<"seedNAT", udpdst>>}
                    /\ lastReply' = Answer("bind_udp", q, "ok", <<>>)
               ELSE /\ lastReply' = Answer("bind_udp", q, "AttributeError", <<>>)
                    /\ UNCHANGED natSeeds
          ELSE IF binders # {}
          THEN LET i == CHOOSE i \in binders : \A j \in binders : i <= j
               IN /\ lastReply' = Answer("bind_udp", q, "forwarded", <<clients[i].conn>>)
                  /\ UNCHANGED natSeeds
          ELSE /\ lastReply' = Answer("bind_udp", q, "ConnectionError", <<>>)
               /\ UNCHANGED natSeeds
    /\ UNCHANGED <<connVars, service, listeningClients, inboundConnections, timers,
                   lastConnID, inbound, lastClaim>>

\* Q2Q.command_BIND_UDP.  A BindUDP passed on to a listening client is
\* recorded as the reply "forwarded" with that client's connection.
command_BIND_UDP(q, q2qsrc, q2qdst, udpsrc, udpdst, protocol) ==
    /\ connState[q] = "open"
    /\ LET srchost == udpsrc[1]
           srcport == udpsrc[2]
           key == <<q2qsrc, protocol>>
           clients == IF key \in DOMAIN listeningClients
                      THEN listeningClients[key] ELSE <<>>
           binders == { i \in 1..Len(clients) : peerHost(clients[i].conn) = srchost }
       IN IF verifyOn(q, q2qsrc, q2qdst) = "VerifyError"
          THEN /\ lastReply' = Answer("bind_udp", q, "VerifyError", <<>>)
               /\ UNCHANGED natSeeds
          ELSE IF /\ getLocalFactories(q2qdst, q2qsrc, protocol) # <<>>
                  /\ srchost = determinePublicIP(q)
          THEN IF service.dispatcher
               THEN /\ natSeeds' = natSeeds \cup {<<"seedNAT", udpdst>>}
                    /\ lastReply' = Answer("bind_udp", q, "ok", <<>>)
               ELSE /\ lastReply' = Answer("bind_udp", q, "AttributeError", <<>>)
                    /\ UNCHANGED natSeeds
          ELSE IF binders # {}
          THEN LET i == CHOOSE i \in binders : \A j \in binders : i <= j
               IN /\ lastReply' = Answer("bind_udp", q, "forwarded", <<clients[i].conn>>)
                  /\ UNCHANGED natSeeds
          ELSE /\ lastReply' = Answer("bind_udp", q, "ConnectionError", <<>>)
               /\ UNCHANGED natSeeds
    /\ UNCHANGED <<connVars, service, listeningClients, inboundConnections, timers,
                   lastConnID, inbound, lastClaim>>

\* One claim of a reservation, for the history: the id, "virtual" or
\* "splice", how it ended, the state of the id's timer when it arrived, and
\* whether the handler called transport.loseConnection().
Claim(id, via, result) ==
    [id |-> id, via |-> via, result |-> result,
     timer |-> IF id \in DOMAIN timers THEN timers[id] ELSE "none",
     loseConnection |-> FALSE]
NoClaim == [id |-> <<>>, via |-> "", result |-> "", timer |-> "",
            loseConnection |-> FALSE]

\* command_VIRTUAL that reads the reservation and leaves it in the table.
command_VIRTUAL_keepsEntry(q, id, greets) ==
    /\ connState[q] = "open"
    /\ IF id \notin DOMAIN inboundConnections
       THEN /\ lastReply' = Answer("virtual", q, "KeyError", <<>>)
            /\ lastClaim' = Claim(id, "virtual", "failed")
            /\ UNCHANGED <<inboundConnections, timers, connections, vts>>
       ELSE LET cwait == inboundConnections[id]
                tpt == newVirtualTransport(Objects, q, id, cwait.protocolFactory, FALSE)
                o == startProtocol(tpt, Len(tpt.vts))
            IN /\ timers' = cancel(timers, id)
               /\ connections' = o.connections
               /\ vts' = o.vts
               /\ lastReply' = Answer("virtual", q, "ok", <<>>)
               /\ lastClaim' = Claim(id, "virtual", "claimed")
               /\ UNCHANGED inboundConnections
    /\ UNCHANGED <<connState, sec, publicIP, listeningClient, connectionObservers,
                   listened, service, listeningClients, lastConnID, natSeeds, inbound>>

\* Q2Q.command_VIRTUAL followed by the sending of its answer
\* (ConnectionStartBox.sendTo: the answer box, then startProtocol).
command_VIRTUAL(q, id, greets) ==
    /\ connState[q] = "open"
    /\ IF id \notin DOMAIN inboundConnections
       THEN /\ lastReply' = Answer("virtual", q, "KeyError", <<>>)
            /\ lastClaim' = Claim(id, "virtual", "failed")
            /\ UNCHANGED <<inboundConnections, timers, connections, vts>>
       ELSE LET cwait == inboundConnections[id]
                tpt == newVirtualTransport(Objects, q, id, cwait.protocolFactory, FALSE)
                s == startProtocol(tpt, Len(tpt.vts))
                o == IF greets /\ ~s.raised
                     THEN [s EXCEPT !.vts[Len(s.vts)].sent = <<1>>] ELSE s
            IN /\ inboundConnections' = Pop(inboundConnections, id)
               /\ timers' = cancel(timers, id)
               /\ connections' = o.connections
               /\ vts' = o.vts
               /\ lastReply' = Answer("virtual", q, "ok", <<>>)
               /\ lastClaim' = Claim(id, "virtual", "claimed")
    /\ UNCHANGED <<connState, sec, publicIP, listeningClient, connectionObservers,
                   listened, service, listeningClients, lastConnID, natSeeds, inbound>>

\* Q2QTCPListener.dataReceived for a first line '<command> <id>' on a
\* splice connection.  A command other than Q2Q: loseConnection, return.
\* Otherwise Q2QService.protocolAndAuthFromId: the entry is popped, the
\* protocol is built, and only then the timer is cancelled; for an id
\* without entry the method returns None and the caller's unpacking of it
\* raises TypeError before the test `proto is None`.
SpliceLine(command, id) ==
    /\ IF command # "Q2Q"
       THEN /\ lastClaim' = [Claim(id, "splice", "refused") EXCEPT !.loseConnection = TRUE]
            /\ UNCHANGED <<inboundConnections, timers>>
       ELSE IF id \notin DOMAIN inboundConnections
       THEN /\ lastClaim' = Claim(id, "splice", "failed")
            /\ UNCHANGED <<inboundConnections, timers>>
       ELSE /\ inboundConnections' = Pop(inboundConnections, id)
            /\ IF inboundConnections[id].protocolFactory.buildRaises
               THEN /\ lastClaim' = Claim(id, "splice", "raised")
                    /\ UNCHANGED timers
               ELSE /\ lastClaim' = Claim(id, "splice", "claimed")
                    /\ timers' = cancel(timers, id)
    /\ UNCHANGED <<connVars, service, listeningClients, lastConnID, natSeeds,
                   inbound, lastReply>>

\* The reactor runs the delayed call of a reservation, 120 s after mapListener.
TimerFires(id) ==
    /\ id \in DOMAIN timers
    /\ timers[id] = "pending"
    /\ timers' = [timers EXCEPT ![id] = "fired"]
    /\ inboundConnections' = expire(inboundConnections, id)
    /\ UNCHANGED <<connVars, service, listeningClients, lastConnID, natSeeds,
                   inbound, lastReply, lastClaim>>

RECURSIVE cancelAll(_, _, _)
\* for cwait, delayed in self.inboundConnections.itervalues(): delayed.cancel()
\* (the entries taken by the number that ends their id)
cancelAll(tm, ns, table) ==
    IF ns = <<>> THEN tm
    ELSE LET id == CHOOSE id \in DOMAIN table : id[3] = Head(ns)
         IN cancelAll(cancel(tm, id), Tail(ns), table)

\* Q2QService.stopService, the reservation table: cancel the timer of
\* every entry, then clear.
stopService ==
    /\ service.running
    /\ service' = [service EXCEPT !.running = FALSE]
    /\ timers' = cancelAll(timers, SetToSeq({id[3] : id \in DOMAIN inboundConnections}),
                            inboundConnections)
    /\ inboundConnections' = EmptyDict
    /\ UNCHANGED <<connVars, listeningClients, lastConnID, natSeeds, inbound,
                   lastReply, lastClaim>>

-----------------------------------------------------------------------------
(***************************************************************************)
(* Virtual channels between p1 and c1.  Commands and answers travel on the *)
(* one byte stream of the connection, so each end reads the boxes of its   *)
(* peer in the order they were sent.                                       *)
(***************************************************************************)

Box(cmd, id, body, ok) == [cmd |-> cmd, id |-> id, body |-> body, ok |-> ok]
VirtualBox(id) == Box("virtual", id, "", TRUE)
WriteBox(id, data) == Box("write", id, data, TRUE)
CloseBox(id) == Box("close", id, "", TRUE)
\* The answer to command `cmd` about channel id: an empty box, or an error.
AnswerBox(cmd, id, ok) == Box("answer", id, cmd, ok)

\* Q2Q object q sends a box: it is appended to what its peer will read,
\* unless the peer is gone.
send(w, q, box) ==
    IF connState[peer(q)] = "open" THEN [w EXCEPT ![peer(q)] = Append(@, box)]
    ELSE w

\* VirtualTransport.write whose command overtakes the boxes not yet read.
write_overtakes(w, q, id, data) ==
    [w EXCEPT ![peer(q)] = <<WriteBox(id, data)>> \o @]

\* VirtualTransport.write: self.q2q.sendCommand('write', data, id=self.id)
write(w, q, id, data) == send(w, q, WriteBox(id, data))

\* The VirtualTransport object of q with channel id (each end builds one
\* per id).
vtOf(q, id) == CHOOSE i \in 1..Len(vts) : vts[i].q2q = q /\ vts[i].id = id

\* VirtualTransport.dataReceived without its try/except: what the protocol
\* raises leaves the method.
dataReceived_uncaught(o, i, data) ==
    LET v == o.vts[i] IN
    IF ~v.started THEN [o EXCEPT !.raised = TRUE]
    ELSE [o EXCEPT !.vts[i].recv = Append(@, data),
                   !.raised = v.protocolFactory.dataRaises]

\* VirtualTransport.dataReceived: protocol.dataReceived(data); on any
\* exception (the missing protocol of a transport not started included)
\* self.connectionLost(reason).
dataReceived(o, i, data) ==
    LET v == o.vts[i] IN
    IF ~v.started THEN vtConnectionLost(o, i)
    ELSE LET d == [o EXCEPT !.vts[i].recv = Append(@, data)] IN
         IF v.protocolFactory.dataRaises THEN vtConnectionLost(d, i)
         ELSE [d EXCEPT !.raised = FALSE]

\* VirtualMethod.attemptConnect on the client's Q2Q object: the client
\* VirtualTransport is built, then the virtual command is sent.  Q2Q.connect
\* tries each listener id once.
attemptConnect(q2qproto, connectionID, protocolFactory) ==
    /\ connState[q2qproto] = "open"
    /\ \A i \in 1..Len(vts) : ~(vts[i].q2q = q2qproto /\ vts[i].id = connectionID)
    /\ LET o == newVirtualTransport(Objects, q2qproto, connectionID,
                                    protocolFactory, TRUE)
       IN /\ connections' = o.connections
          /\ vts' = o.vts
    /\ wire' = send(wire, q2qproto, VirtualBox(connectionID))
    /\ UNCHANGED <<connState, sec, publicIP, listeningClient, connectionObservers,
                   listened, svcVars>>

\* ConnectionStartBox.sendTo with the protocol started before the answer
\* box is sent.
sendTo_startsFirst(w, q, id, ok, wrote) ==
    LET started == IF wrote THEN write(w, q, id, 1) ELSE w
    IN send(started, q, AnswerBox("virtual", id, ok))

\* ConnectionStartBox.sendTo (an error answer is a plain box): the answer
\* is sent, then virtualTransport.startProtocol() runs, and `wrote` tells
\* whether the protocol wrote to its transport in connectionMade.
sendTo(w, q, id, ok, wrote) ==
    LET answered == send(w, q, AnswerBox("virtual", id, ok))
    IN IF wrote THEN write(answered, q, id, 1) ELSE answered

\* The virtual command reaches q: command_VIRTUAL and its answer.  With
\* `greets` the protocol the factory builds writes in connectionMade.
virtualReceived(q, greets) ==
    /\ connState[q] = "open"
    /\ wire[q] # <<>>
    /\ Head(wire[q]).cmd = "virtual"
    /\ LET id == Head(wire[q]).id
           ok == id \in DOMAIN inboundConnections
           wrote == greets /\ ok /\ ~inboundConnections[id].protocolFactory.buildRaises
       IN /\ command_VIRTUAL(q, id, greets)
          /\ wire' = sendTo([wire EXCEPT ![q] = Tail(@)], q, id, ok, wrote)

MaxWrites == 2

\* The protocol of transport i calls transport.write(data); the n-th piece
\* of data it writes is n.
protocolWrites(i) ==
    /\ vts[i].started
    /\ vts[i].told = 0
    /\ connState[vts[i].q2q] = "open"
    /\ Len(vts[i].sent) < MaxWrites
    /\ LET data == Len(vts[i].sent) + 1
       IN /\ vts' = [vts EXCEPT ![i].sent = Append(@, data)]
          /\ wire' = write(wire, vts[i].q2q, vts[i].id, data)
    /\ UNCHANGED <<connState, sec, publicIP, listeningClient, connections,
                   connectionObservers, listened, svcVars>>

\* VirtualTransport.loseConnection, called by the protocol of transport i.
loseConnection(i) ==
    /\ vts[i].started
    /\ vts[i].told = 0
    /\ connState[vts[i].q2q] = "open"
    /\ ~vts[i].disconnecting
    /\ vts' = [vts EXCEPT ![i].disconnecting = TRUE, ![i].asking = TRUE,
                          ![i].closes = @ + 1, ![i].closeCalls = @ + 1,
                          ![i].sentAtClose = Len(vts[i].sent)]
    /\ wire' = send(wire, vts[i].q2q, CloseBox(vts[i].id))
    /\ UNCHANGED <<connState, sec, publicIP, listeningClient, connections,
                   connectionObservers, listened, svcVars>>

MaxCloses == 2

\* VirtualTransport.loseConnection called again on transport i, whether or
\* not the earlier close was answered: another close command is sent.
loseConnectionAgain(i) ==
    /\ vts[i].started
    /\ connState[vts[i].q2q] = "open"
    /\ vts[i].disconnecting
    /\ vts[i].closeCalls < MaxCloses
    /\ vts' = [vts EXCEPT ![i].asking = TRUE, ![i].closes = @ + 1,
                          ![i].closeCalls = @ + 1]
    /\ wire' = send(wire, vts[i].q2q, CloseBox(vts[i].id))
    /\ UNCHANGED <<connState, sec, publicIP, listeningClient, connections,
                   connectionObservers, listened, svcVars>>

\* The protocol at the far end of an opened channel id of c1 writes: a
\* WRITE for id is on its way to c1.
peerWrites(id) ==
    /\ connState["c1"] = "open"
    /\ \E i \in 1..Len(vts) : vts[i].q2q = "c1" /\ vts[i].id = id
    /\ \A i \in 1..Len(vts) : vts[i].seen + Len(wire["c1"]) < MaxWrites
    /\ wire' = write(wire, "p1", id, vts[vtOf("c1", id)].seen + Len(wire["c1"]) + 1)
    /\ UNCHANGED <<connVars, svcVars>>

\* History: q handles a WRITE or CLOSE command for channel id.
noteSeen(o, q, box) ==
    IF \E i \in 1..Len(o.vts) : o.vts[i].q2q = q /\ o.vts[i].id = box.id
    THEN LET i == vtOf(q, box.id) IN
         IF box.cmd = "write" THEN [o EXCEPT !.vts[i].seen = @ + 1]
         ELSE [o EXCEPT !.vts[i].seenAtClose = o.vts[i].seen]
    ELSE o

\* Q2Q.juice_WRITE on q.  connections[box['id']] raises KeyError for a
\* channel q does not have; the answer, empty or error, has no callback
\* at the sender.
juice_WRITE(q) ==
    /\ connState[q] = "open"
    /\ wire[q] # <<>>
    /\ Head(wire[q]).cmd = "write"
    /\ LET box == Head(wire[q])
           n == noteSeen(Objects, q, box)
           o == IF box.id \notin DOMAIN connections[q] THEN n
                ELSE dataReceived(n, connections[q][box.id], box.body)
       IN /\ connections' = o.connections
          /\ vts' = o.vts
    /\ wire' = [wire EXCEPT ![q] = Tail(@)]
    /\ UNCHANGED <<connState, sec, publicIP, listeningClient, connectionObservers,
                   listened, svcVars>>

\* juice_CLOSE that acknowledges the command and leaves the transport alone.
juice_CLOSE_onlyAcks(q) ==
    /\ connState[q] = "open"
    /\ wire[q] # <<>>
    /\ Head(wire[q]).cmd = "close"
    /\ wire' = send([wire EXCEPT ![q] = Tail(@)], q,
                    AnswerBox("close", Head(wire[q]).id, TRUE))
    /\ UNCHANGED <<connState, sec, publicIP, listeningClient, connectionObservers,
                   listened, svcVars, connections, vts>>

\* Q2Q.juice_CLOSE on q: connections[box['id']].connectionLost(CONNECTION_DONE);
\* an error answer when that raises.
juice_CLOSE(q) ==
    /\ connState[q] = "open"
    /\ wire[q] # <<>>
    /\ Head(wire[q]).cmd = "close"
    /\ LET box == Head(wire[q])
           n == noteSeen(Objects, q, box)
           o == IF box.id \notin DOMAIN connections[q]
                THEN [n EXCEPT !.raised = TRUE]
                ELSE vtConnectionLost(n, connections[q][box.id])
       IN /\ connections' = o.connections
          /\ vts' = o.vts
          /\ wire' = send([wire EXCEPT ![q] = Tail(@)], q,
                          AnswerBox("close", box.id, ~o.raised))
    /\ UNCHANGED <<connState, sec, publicIP, listeningClient, connectionObservers,
                   listened, svcVars>>

\* An answer reaches q.  To virtual: startit, that is startProtocol on the
\* transport attemptConnect built (nothing on an error answer).  To close:
\* callback and errback of loseConnection are both connectionLost.
answerReceived(q) ==
    /\ connState[q] = "open"
    /\ wire[q] # <<>>
    /\ Head(wire[q]).cmd = "answer"
    /\ LET box == Head(wire[q])
           i == vtOf(q, box.id)
           o == IF box.body = "virtual"
                THEN (IF box.ok THEN startProtocol(Objects, i) ELSE Objects)
                ELSE [vtConnectionLost(Objects, i) EXCEPT
                        !.vts[i].asking = (vts[i].closes > 1),
                        !.vts[i].closes = IF @ > 0 THEN @ - 1 ELSE 0]
       IN /\ connections' = o.connections
          /\ vts' = o.vts
    /\ wire' = [wire EXCEPT ![q] = Tail(@)]
    /\ UNCHANGED <<connState, sec, publicIP, listeningClient, connectionObservers,
                   listened, svcVars>>

-----------------------------------------------------------------------------
(***************************************************************************)
(* DefaultCertificateStore, and the SIGN command with its client           *)
(* Q2QService.requestCertificateForAddress.                                *)
(***************************************************************************)

VARIABLES
    localStore,    \* certificateStorage.localStore: [name -> private certificate]
    remoteStore,   \* certificateStorage.remoteStore: [domain name -> certificate]
    users          \* certificateStorage.users: [<<domain, username>> -> secret]

storeVars == <<localStore, remoteStore, users>>

\* DefaultCertificateStore.checkUser: does the Deferred succeed?
checkUser_anySecret(domain, username, privateSecret) ==
    <<domain, username>> \in DOMAIN users

checkUser(domain, username, privateSecret) ==
    /\ <<domain, username>> \in DOMAIN users
    /\ users[<<domain, username>>] = privateSecret

\* Q2QService.checkPrivateSecret
checkPrivateSecret(username, domain, privateSecret) ==
    checkUser(domain, username, privateSecret)

RECURSIVE split(_, _)
\* str.split(sep) for a one-character separator: the list of the parts.
split(str, sep) ==
    IF \A k \in 1..Len(str) : str[k] # sep THEN <<str>>
    ELSE LET k == CHOOSE k \in 1..Len(str) :
                      str[k] = sep /\ \A j \in 1..(k - 1) : str[j] # sep
         IN <<SubSeq(str, 1, k - 1)>> \o split(SubSeq(str, k + 1, Len(str)), sep)

\* A certificate request: the field names of its subject and its CN
\* (<<>> when the subject has none).
CertReq(keys, commonName) == [keys |-> keys, commonName |-> commonName]

\* PrivateCertificate.signRequestObject: the issuer is the signer's subject.
signRequestObject(ourCert, certificate_request) ==
    Cert(ourCert.subject, certificate_request.commonName)

\* Sign.errors, and juice's answer to any other exception.
signErrors(exception) ==
    IF exception = "KeyError" THEN "NoSuchUser"
    ELSE IF exception = "BadCertificateRequest" THEN "BadCertificateRequest"
    ELSE "UNKNOWN"

VARIABLES
    signReq,       \* the Sign command in flight: None or Some([certificate_request, password, requester])
    signAnswer,    \* its answer in flight: None or Some([kind, exception, certificate, request])
    lastSign,      \* history: the last answer command_SIGN gave
    signed,        \* history: the certificates command_SIGN has signed
    clientLocal    \* the localStore of the service that requests certificates

signVars == <<signReq, signAnswer, lastSign, signed, clientLocal>>

SignRequest(certificate_request, password, requester) ==
    [certificate_request |-> certificate_request, password |-> password,
     requester |-> requester]

SignAnswer(exception, certificate, request) ==
    [kind |-> IF exception = "" THEN "ok" ELSE signErrors(exception),
     exception |-> exception, certificate |-> certificate, request |-> request]

NoSignAnswer == SignAnswer("", None, SignRequest(CertReq(<<>>, <<>>), "", None))

\* Q2QService.requestCertificateForAddress once the connection to the
\* domain is there (_2): Sign with a request whose subject is the address.
requestCertificateForAddress(fromAddress, sharedSecret) ==
    /\ signReq = None
    /\ signAnswer = None
    /\ signReq' = Some(SignRequest(CertReq(<<"CN">>, Str(fromAddress)), sharedSecret,
                                   Some(fromAddress)))
    /\ UNCHANGED <<storeVars, signAnswer, lastSign, signed, clientLocal>>

\* A peer sends a Sign command of its own making.
peerSign(certificate_request, password) ==
    /\ signReq = None
    /\ signAnswer = None
    /\ signReq' = Some(SignRequest(certificate_request, password, None))
    /\ UNCHANGED <<storeVars, signAnswer, lastSign, signed, clientLocal>>

\* Q2Q.command_SIGN: the exception raised ("" for none) and the certificate.
signOutcome(certificate_request, password) ==
    IF certificate_request.keys # <<"CN">>
    THEN [exception |-> "BadCertificateRequest", certificate |-> None]
    ELSE LET parts == split(certificate_request.commonName, "@") IN
         IF Len(parts) # 2
         THEN [exception |-> "ValueError", certificate |-> None]
         ELSE LET username == parts[1]
                  domain == parts[2]
              IN IF domain \notin DOMAIN localStore
                 THEN [exception |-> "KeyError", certificate |-> None]
                 ELSE IF ~checkPrivateSecret(username, domain, password)
                 THEN [exception |-> "KeyError", certificate |-> None]
                 ELSE [exception |-> "",
                       certificate |-> Some(signRequestObject(localStore[domain],
                                                              certificate_request))]

\* Q2Q.command_SIGN on the server for the command in flight, and its answer.
command_SIGN ==
    /\ signReq # None
    /\ LET request == signReq[1]
           out == signOutcome(request.certificate_request, request.password)
           answer == SignAnswer(out.exception, out.certificate, request)
       IN /\ signAnswer' = Some(answer)
          /\ lastSign' = answer
          /\ signed' = IF out.certificate = None THEN signed
                       ELSE signed \cup {out.certificate[1]}
    /\ signReq' = None
    /\ UNCHANGED <<storeVars, clientLocal>>

\* The answer reaches the sender; for requestCertificateForAddress the
\* callback _1 stores the certificate under str(fromAddress), an error
\* answer fails the Deferred.
signAnswered ==
    /\ signAnswer # None
    /\ LET answer == signAnswer[1] IN
       clientLocal' = IF answer.kind = "ok" /\ answer.request.requester # None
                      THEN Put(clientLocal, Str(answer.request.requester[1]),
                               answer.certificate[1])
                      ELSE clientLocal
    /\ signAnswer' = None
    /\ UNCHANGED <<storeVars, signReq, lastSign, signed>>

StoreStart(certs, remote, accounts) ==
    /\ localStore = certs
    /\ remoteStore = remote
    /\ users = accounts

SignIdle ==
    /\ signReq = None
    /\ signAnswer = None
    /\ lastSign = NoSignAnswer
    /\ signed = {}
    /\ clientLocal = EmptyDict

-----------------------------------------------------------------------------
(***************************************************************************)
(* Q2QService.getSecureConnection and the secure connection cache.  The    *)
(* cache itself (vertex.conncache.ConnectionCache) is modelled from its    *)
(* specification: keyed on (endpoint, extraHash); a hit yields the cached  *)
(* connection, a miss dials and leaves a pending entry that later misses   *)
(* wait on.                                                                *)
(***************************************************************************)

VARIABLES
    cachedConnections,   \* secureConnectionCache: [key -> index into physical]
    inProgress,          \* secureConnectionCache: [key -> Seq(index into gscCalls)]
    gscCalls,            \* the getSecureConnection calls made: args, stage, result
    physical             \* history: the connections dialed, [key, state, secures]

cacheVars == <<cachedConnections, inProgress, gscCalls, physical>>

\* reactor.resolve(str(toDomain)): the address the name resolves to.
resolve(domainName) == <<"ip", domainName>>

TCPEndpoint(host, p) == [host |-> host, port |-> p]

Q2QPort == 8788

\* The branches of cb that pick ourCert and cacheFrom: [ok, cacheFrom, authorize].
chooseCertificate(fromAddress, toDomain, authorize) ==
    IF fromAddress.domain = <<>>
    THEN [ok |-> TRUE, cacheFrom |-> fromAddress, authorize |-> FALSE]
    ELSE IF Str(domainAddress(fromAddress)) \in DOMAIN localStore
    THEN [ok |-> TRUE, cacheFrom |-> domainAddress(fromAddress), authorize |-> authorize]
    ELSE IF Str(fromAddress) \in DOMAIN localStore
    THEN [ok |-> TRUE, cacheFrom |-> fromAddress, authorize |-> authorize]
    ELSE IF Str(toDomain) \in DOMAIN localStore
    THEN [ok |-> TRUE, cacheFrom |-> toDomain, authorize |-> authorize]
    ELSE [ok |-> FALSE, cacheFrom |-> fromAddress, authorize |-> authorize]

\* The cache key made per call instead of per destination domain.
secureKey_fullAddress(toIPAddress, cacheFrom, toAddress, authorize) ==
    <<TCPEndpoint(toIPAddress, Q2QPort), <<cacheFrom, toAddress, authorize>>>>

\* key = endpoint, extraHash with endpoint.TCPEndpoint(toIPAddress, port)
\* and extraHash=(cacheFrom, toDomain, authorize)
secureKey(toIPAddress, cacheFrom, toAddress, authorize) ==
    <<TCPEndpoint(toIPAddress, Q2QPort), <<cacheFrom, domainAddress(toAddress), authorize>>>>

GscCall(fromAddress, toAddress, authorize) ==
    [From |-> fromAddress, to |-> toAddress, authorize |-> authorize,
     stage |-> "resolving", key |-> <<>>, conn |-> 0]

MaxCalls == 2

\* Q2QService.getSecureConnection up to reactor.resolve
getSecureConnection(fromAddress, toAddress, authorize) ==
    /\ Len(gscCalls) < MaxCalls
    /\ gscCalls' = Append(gscCalls, GscCall(fromAddress, toAddress, authorize))
    /\ UNCHANGED <<storeVars, cachedConnections, inProgress, physical>>

\* ConnectionCache.connectCached(endpoint, factory, extraWork, extraHash)
\* for call i: c = [cachedConnections, inProgress, gscCalls, physical].
connectCached(c, key, i) ==
    IF key \in DOMAIN c.cachedConnections
    THEN [c EXCEPT !.gscCalls[i].stage = "done", !.gscCalls[i].key = key,
                   !.gscCalls[i].conn = c.cachedConnections[key]]
    ELSE IF key \in DOMAIN c.inProgress
    THEN [c EXCEPT !.gscCalls[i].stage = "waiting", !.gscCalls[i].key = key,
                   !.inProgress[key] = Append(@, i)]
    ELSE [c EXCEPT !.gscCalls[i].stage = "waiting", !.gscCalls[i].key = key,
                   !.inProgress = Put(@, key, <<i>>),
                   !.physical = Append(@, [key |-> key, state |-> "pending",
                                           secures |-> 0])]

Caches == [cachedConnections |-> cachedConnections, inProgress |-> inProgress,
           gscCalls |-> gscCalls, physical |-> physical]

\* cb(toIPAddress) of getSecureConnection for call i: the name is resolved.
resolved(i) ==
    /\ gscCalls[i].stage = "resolving"
    /\ LET call == gscCalls[i]
           toDomain == domainAddress(call.to)
           ch == chooseCertificate(call.From, toDomain, call.authorize)
           c == IF ~ch.ok
                THEN [Caches EXCEPT !.gscCalls[i].stage = "VerifyError"]
                ELSE connectCached(Caches,
                         secureKey(resolve(Str(toDomain)), ch.cacheFrom, call.to,
                                   ch.authorize), i)
       IN /\ cachedConnections' = c.cachedConnections
          /\ inProgress' = c.inProgress
          /\ gscCalls' = c.gscCalls
          /\ physical' = c.physical
    /\ UNCHANGED storeVars

\* The physical connection dialed for key
dialOf(key) ==
    CHOOSE n \in 1..Len(physical) : physical[n].key = key /\ physical[n].state = "pending"

\* The dial for key succeeds: extraWork (connected: the certificate of the
\* domain, then proto.secure) runs on the new connection, which is then
\* cached and given to every waiting call.
dialSucceeds(key) ==
    /\ key \in DOMAIN inProgress
    /\ LET n == dialOf(key)
       IN /\ physical' = [physical EXCEPT ![n].state = "live", ![n].secures = @ + 1]
          /\ cachedConnections' = Put(cachedConnections, key, n)
          /\ gscCalls' = [i \in 1..Len(gscCalls) |->
                            IF \E k \in 1..Len(inProgress[key]) : inProgress[key][k] = i
                            THEN [gscCalls[i] EXCEPT !.stage = "done", !.conn = n]
                            ELSE gscCalls[i]]
    /\ inProgress' = Pop(inProgress, key)
    /\ UNCHANGED storeVars

\* The dial for key, or the extraWork on it, fails: every waiting call fails.
dialFails(key) ==
    /\ key \in DOMAIN inProgress
    /\ physical' = [physical EXCEPT ![dialOf(key)].state = "failed"]
    /\ gscCalls' = [i \in 1..Len(gscCalls) |->
                      IF \E k \in 1..Len(inProgress[key]) : inProgress[key][k] = i
                      THEN [gscCalls[i] EXCEPT !.stage = "failed"]
                      ELSE gscCalls[i]]
    /\ inProgress' = Pop(inProgress, key)
    /\ UNCHANGED <<storeVars, cachedConnections>>

\* A cached connection is lost: the cache forgets it.
cachedConnectionLost(key) ==
    /\ key \in DOMAIN cachedConnections
    /\ physical' = [physical EXCEPT ![cachedConnections[key]].state = "lost"]
    /\ cachedConnections' = Pop(cachedConnections, key)
    /\ UNCHANGED <<storeVars, inProgress, gscCalls>>

\* The later parts of the model, at rest.
CacheStart ==
    /\ cachedConnections = EmptyDict
    /\ inProgress = EmptyDict
    /\ gscCalls = <<>>
    /\ physical = <<>>

-----------------------------------------------------------------------------
(***************************************************************************)
(* SECURE on one connection: its client end (Q2Q.secure, called by the     *)
(* extraWork of getSecureConnection) and its server end                    *)
(* (Q2Q.command_SECURE), each facing whatever its peer may send.           *)
(***************************************************************************)

VARIABLES
    overlay,        \* [end -> [authorized, hostCertificate, tls, closed, unrequested]]
    outSecure,      \* client: the Secure commands awaiting their answer
    identPending,   \* client: connected() awaiting the Identify answer
    clientRemote,   \* client: certificateStorage.remoteStore
    pendingSecure,  \* server: the SECURE commands awaiting _retrieveRemoteCertificate
    lastSecure,     \* history: the last secure() call or SECURE command
    nSecure         \* history: how many secure() calls and SECURE commands so far

secVars == <<overlay, outSecure, identPending, clientRemote, pendingSecure,
             lastSecure, nSecure>>

SecureEnds == {"client", "server"}

\* A Q2Q connection as made: authorized = False, hostCertificate = None.
FreshOverlay == [authorized |-> FALSE, hostCertificate |-> None, tls |-> <<>>,
                 closed |-> FALSE, unrequested |-> 0]

\* juice.Juice.startTLS(certificate, *verifyAuthorities) for the Secure
\* command with the given authorize flag.
startTLS(o, certificate, verify, authorize) ==
    [o EXCEPT !.hostCertificate = Some(certificate),
              !.tls = Append(@, [certificate |-> certificate, verify |-> verify,
                                 authorize |-> authorize])]

\* The test on entry without effect.
alreadySecured_never(o) == FALSE

\* if self.hostCertificate is not None: raise RuntimeError(...)
alreadySecured(o) == o.hostCertificate # None

\* juice answers an exception that the command does not declare with an
\* unknown-error box that ends the connection.
fatal(o) == [o EXCEPT !.closed = TRUE]

SecureNote(end, kind, secured) == [end |-> end, kind |-> kind, secured |-> secured]
NoSecure == SecureNote("", "", FALSE)

\* _cbSecure that sets authorized in both branches.
cbSecure_alwaysAuthorized(o, call) ==
    IF call.foreignCertificateAuthority = None
    THEN [startTLS(o, call.fromCertificate, None, call.authorize)
            EXCEPT !.authorized = TRUE]
    ELSE [startTLS(o, call.fromCertificate, call.foreignCertificateAuthority,
                   call.authorize)
            EXCEPT !.authorized = TRUE]

\* _cbSecure of Q2Q.secure
cbSecure(o, call) ==
    IF call.foreignCertificateAuthority = None
    THEN [startTLS(o, call.fromCertificate, None, call.authorize)
            EXCEPT !.authorized = FALSE]
    ELSE [startTLS(o, call.fromCertificate, call.foreignCertificateAuthority,
                   call.authorize)
            EXCEPT !.authorized = TRUE]

SecureCall(fromCertificate, foreignCertificateAuthority, authorize) ==
    [fromCertificate |-> fromCertificate,
     foreignCertificateAuthority |-> foreignCertificateAuthority,
     authorize |-> authorize]

MaxSecures == 2

\* Q2Q.secure on the client end: RuntimeError when already secured, else
\* the Secure command is sent.
secure(fromCertificate, foreignCertificateAuthority, authorize) ==
    /\ nSecure < MaxSecures
    /\ ~overlay["client"].closed
    /\ nSecure' = nSecure + 1
    /\ IF alreadySecured(overlay["client"])
       THEN /\ lastSecure' = SecureNote("client", "RuntimeError", TRUE)
            /\ UNCHANGED outSecure
       ELSE /\ lastSecure' = SecureNote("client", "sent", FALSE)
            /\ outSecure' = Append(outSecure,
                   SecureCall(fromCertificate, foreignCertificateAuthority, authorize))
    /\ UNCHANGED <<overlay, identPending, clientRemote, pendingSecure>>

\* connected(proto) that asks the peer whatever the store holds.
connected_alwaysIdentifies(toDomain, ourCert, authorize) ==
    /\ nSecure < MaxSecures
    /\ ~overlay["client"].closed
    /\ identPending = None
    /\ identPending' = Some([toDomain |-> toDomain, ourCert |-> ourCert,
                             authorize |-> authorize])
    /\ UNCHANGED <<overlay, outSecure, clientRemote, pendingSecure,
                   lastSecure, nSecure>>

\* connected(proto), the extraWork of getSecureConnection: the
\* certificate of the domain from the store, or else Identify first.
connected(toDomain, ourCert, authorize) ==
    /\ nSecure < MaxSecures
    /\ ~overlay["client"].closed
    /\ identPending = None
    /\ IF Str(toDomain) \in DOMAIN clientRemote
       THEN secure(ourCert, Some(clientRemote[Str(toDomain)]), authorize)
       ELSE /\ identPending' = Some([toDomain |-> toDomain, ourCert |-> ourCert,
                                     authorize |-> authorize])
            /\ UNCHANGED <<overlay, outSecure, clientRemote, pendingSecure,
                           lastSecure, nSecure>>

\* The Identify answer reaches connected(): storeit, then gotcert.
identified(certificate) ==
    /\ identPending # None
    /\ LET c == identPending[1] IN
       /\ clientRemote' = Put(clientRemote, Str(c.toDomain), certificate)
       /\ nSecure' = nSecure + 1
       /\ IF alreadySecured(overlay["client"])
          THEN /\ lastSecure' = SecureNote("client", "RuntimeError", TRUE)
               /\ UNCHANGED outSecure
          ELSE /\ lastSecure' = SecureNote("client", "sent", FALSE)
               /\ outSecure' = Append(outSecure,
                      SecureCall(c.ourCert, Some(certificate), c.authorize))
    /\ identPending' = None
    /\ UNCHANGED <<overlay, pendingSecure>>

\* The answer to the oldest Secure command reaches the client: _cbSecure.
secureAnswered ==
    /\ outSecure # <<>>
    /\ overlay' = [overlay EXCEPT !["client"] = cbSecure(@, Head(outSecure))]
    /\ outSecure' = Tail(outSecure)
    /\ UNCHANGED <<identPending, clientRemote, pendingSecure, lastSecure, nSecure>>

\* Q2QClientFactory.buildProtocol for a later connectCached that finds no
\* cached connection: the next extraWork runs on a new Q2Q(False), with
\* the same certificate store.
newClientConnection ==
    /\ overlay["client"].hostCertificate # None
    /\ outSecure = <<>>
    /\ identPending = None
    /\ overlay' = [overlay EXCEPT !["client"] = FreshOverlay]
    /\ UNCHANGED <<outSecure, identPending, clientRemote, pendingSecure,
                   lastSecure, nSecure>>

\* hadCert and the sending of its answer (TLSBox.sendTo: startTLS with the
\* peer domain's certificate to verify against).  `unrequested` counts the
\* calls of secureConnectionCache.cacheUnrequested for the connection.
hadCert(o, ourCert, peerSigned) ==
    startTLS([o EXCEPT !.authorized = TRUE, !.unrequested = @ + 1],
             ourCert, Some(peerSigned), TRUE)

\* Q2Q.command_SECURE on the server end, with the sending of its answer.
command_SECURE(to, From, authorize) ==
    /\ nSecure < MaxSecures
    /\ ~overlay["server"].closed
    /\ nSecure' = nSecure + 1
    /\ LET o == overlay["server"]
           name == Str(domainAddress(to))
           peerName == Str(domainAddress(From))
       IN IF alreadySecured(o)
          THEN /\ overlay' = [overlay EXCEPT !["server"] = fatal(o)]
               /\ lastSecure' = SecureNote("server", "RuntimeError", TRUE)
               /\ UNCHANGED <<pendingSecure>>
          ELSE IF name \notin DOMAIN localStore
          THEN /\ overlay' = [overlay EXCEPT !["server"] = fatal(o)]
               /\ lastSecure' = SecureNote("server", "KeyError", FALSE)
               /\ UNCHANGED <<pendingSecure>>
          ELSE IF ~authorize
          THEN /\ overlay' = [overlay EXCEPT !["server"] =
                                startTLS([o EXCEPT !.authorized = FALSE],
                                         localStore[name], None, FALSE)]
               /\ lastSecure' = SecureNote("server", "ok", FALSE)
               /\ UNCHANGED <<pendingSecure>>
          ELSE IF peerName \in DOMAIN remoteStore
          THEN /\ overlay' = [overlay EXCEPT !["server"] =
                                hadCert(o, localStore[name], remoteStore[peerName])]
               /\ lastSecure' = SecureNote("server", "ok", FALSE)
               /\ UNCHANGED <<pendingSecure>>
          ELSE /\ pendingSecure' = Append(pendingSecure,
                                          [From |-> From, ourCert |-> localStore[name]])
               /\ lastSecure' = SecureNote("server", "retrieving", FALSE)
               /\ UNCHANGED <<overlay>>
    /\ UNCHANGED <<storeVars, outSecure, identPending, clientRemote>>

\* gotCert of _retrieveRemoteCertificate: may the certificate be stored?
gotCert(dhost, theirCert) ==
    /\ theirCert.subject = Str(dhost)
    /\ theirCert.issuer = Str(dhost)

\* The Identify answer of _retrieveRemoteCertificate for the oldest
\* waiting SECURE: gotCert, then hadCert and the answer, or VerifyError.
retrieved(theirCert) ==
    /\ pendingSecure # <<>>
    /\ LET w == Head(pendingSecure)
           dhost == domainAddress(w.From)
           o == overlay["server"]
       IN IF gotCert(dhost, theirCert)
          THEN /\ remoteStore' = Put(remoteStore, Str(dhost), theirCert)
               /\ overlay' = [overlay EXCEPT !["server"] = hadCert(o, w.ourCert, theirCert)]
          ELSE /\ overlay' = [overlay EXCEPT !["server"] = fatal(o)]
               /\ UNCHANGED remoteStore
    /\ pendingSecure' = Tail(pendingSecure)
    /\ UNCHANGED <<localStore, users, outSecure, identPending, clientRemote,
                   lastSecure, nSecure>>

SecureIdle ==
    /\ overlay = [e \in SecureEnds |-> FreshOverlay]
    /\ outSecure = <<>>
    /\ identPending = None
    /\ clientRemote = EmptyDict
    /\ pendingSecure = <<>>
    /\ lastSecure = NoSecure
    /\ nSecure = 0

-----------------------------------------------------------------------------
(***************************************************************************)
(* Q2Q.connect on the client: the listeners the chooser returned are       *)
(* attempted side by side, the methods of one listener in turn             *)
(* (attemptConnectionMethods, _endeferify), and the DeferredList of the    *)
(* chains decides the result.                                              *)
(***************************************************************************)

VARIABLES
    hasDispatcher,   \* self.service.dispatcher is not None
    chosen,          \* what the chooser returned: per listener, its methods
    chains,          \* per listener, the state of its _endeferify chain
    connectPc,       \* "idle" | "attempting" | "done"
    connectResult    \* what the Deferred of connect fired with

connectVars == <<hasDispatcher, chosen, chains, connectPc, connectResult>>

\* A method of a listener with what its attempt will come to: `ok` and `v`
\* are the outcome of the connection it tries.
Try(kind, ok, v) == [kind |-> kind, ok |-> ok, v |-> v]

\* method.attemptConnect as _attemptSingleConnect sees it: "now" when the
\* Deferred has its result at once (UnknownMethod returns defer.fail; a
\* PTCP or RPTCP method raises on the missing dispatcher), "later" when the
\* result comes with a later event.
methodAttempt(m) ==
    IF m.kind = "unknown"
    THEN [when |-> "now", ok |-> FALSE, v |-> "ConnectionError"]
    ELSE IF m.kind \in {"ptcp", "rptcp"} /\ ~hasDispatcher
    THEN [when |-> "now", ok |-> FALSE, v |-> "AttributeError"]
    ELSE [when |-> "later", ok |-> m.ok, v |-> m.v]

\* One chain: the methods, the iterator position, the failure chain, the
\* events so far (start, fail, ok of attempt k) and the chain's Deferred.
Chain(methods) ==
    [methods |-> methods, stuff |-> 0, failureChain |-> <<>>, log |-> <<>>,
     result |-> Pending]

\* The chain gives up at the first attempt that has failed already.
endeferifyChain_stops(c, first) ==
    IF first /\ Len(c.methods) = 0
    THEN [c EXCEPT !.result = Failed("NoAttemptsMade", <<>>)]
    ELSE IF c.stuff = Len(c.methods)
    THEN [c EXCEPT !.result = Failed("AttemptsFailed", c.failureChain)]
    ELSE LET k == c.stuff + 1
             a == methodAttempt(c.methods[k])
             started == [c EXCEPT !.stuff = k, !.log = Append(@, <<"start", k>>)]
         IN IF a.when = "later" THEN started
            ELSE IF a.ok
            THEN [started EXCEPT !.log = Append(@, <<"ok", k>>),
                                 !.result = Succeeded(a.v)]
            ELSE [started EXCEPT !.log = Append(@, <<"fail", k>>),
                                 !.failureChain = fcrecurse(@, a.v),
                                 !.result = Failed("AttemptsFailed",
                                                   fcrecurse(c.failureChain, a.v))]

RECURSIVE endeferifyChain(_, _)
\* _endeferify for one listener's methods: the next attempt is called; one
\* whose Deferred has failed already runs _fcrecurse at once.
endeferifyChain(c, first) ==
    IF first /\ Len(c.methods) = 0
    THEN [c EXCEPT !.result = Failed("NoAttemptsMade", <<>>)]
    ELSE IF c.stuff = Len(c.methods)
    THEN [c EXCEPT !.result = Failed("AttemptsFailed", c.failureChain)]
    ELSE LET k == c.stuff + 1
             a == methodAttempt(c.methods[k])
             started == [c EXCEPT !.stuff = k, !.log = Append(@, <<"start", k>>)]
         IN IF a.when = "later" THEN started
            ELSE IF a.ok
            THEN [started EXCEPT !.log = Append(@, <<"ok", k>>),
                                 !.result = Succeeded(a.v)]
            ELSE endeferifyChain([started EXCEPT
                                     !.log = Append(@, <<"fail", k>>),
                                     !.failureChain = fcrecurse(@, a.v)], FALSE)

\* finishedAllAttempts with the empty result list taken for a failure of
\* all attempts.
finishedAllAttempts_noEmptyCase(results) ==
    IF \E i \in 1..Len(results) : results[i].kind = "success"
    THEN LET i == CHOOSE i \in 1..Len(results) :
                     /\ results[i].kind = "success"
                     /\ \A j \in 1..(i - 1) : results[j].kind # "success"
         IN Succeeded(results[i].value)
    ELSE Failed("AttemptsFailed", [i \in 1..Len(results) |-> results[i].kind])

\* finishedAllAttempts(results) of Q2Q.connect
finishedAllAttempts(results) ==
    IF results = <<>> THEN Failed("NoAttemptsMade", <<>>)
    ELSE IF \E i \in 1..Len(results) : results[i].kind = "success"
    THEN LET i == CHOOSE i \in 1..Len(results) :
                     /\ results[i].kind = "success"
                     /\ \A j \in 1..(i - 1) : results[j].kind # "success"
         IN Succeeded(results[i].value)
    ELSE Failed("AttemptsFailed", [i \in 1..Len(results) |-> results[i].kind])

\* defer.DeferredList(allConnectionAttempts): fires once every chain has
\* its result, and then finishedAllAttempts runs.
deferredList(cs) ==
    IF \A i \in 1..Len(cs) : cs[i].result.kind # "pending"
    THEN /\ connectPc' = "done"
         /\ connectResult' = finishedAllAttempts([i \in 1..Len(cs) |-> cs[i].result])
    ELSE /\ connectPc' = "attempting"
         /\ UNCHANGED connectResult

\* _connected and gotListeners of Q2Q.connect, once Inbound is answered and
\* the chooser has returned `chosen`.
gotListeners ==
    /\ connectPc = "idle"
    /\ LET cs == [i \in 1..Len(chosen) |-> endeferifyChain(Chain(chosen[i]), TRUE)]
       IN /\ chains' = cs
          /\ deferredList(cs)
    /\ UNCHANGED <<hasDispatcher, chosen>>

\* The attempt in flight of chain i comes to its outcome.
attemptDone(i) ==
    /\ connectPc = "attempting"
    /\ chains[i].result.kind = "pending"
    /\ LET c == chains[i]
           k == c.stuff
           a == methodAttempt(c.methods[k])
           c2 == IF a.ok
                 THEN [c EXCEPT !.log = Append(@, <<"ok", k>>),
                                !.result = Succeeded(a.v)]
                 ELSE endeferifyChain([c EXCEPT !.log = Append(@, <<"fail", k>>),
                                                !.failureChain = fcrecurse(@, a.v)],
                                      FALSE)
           cs == [chains EXCEPT ![i] = c2]
       IN /\ chains' = cs
          /\ deferredList(cs)
    /\ UNCHANGED <<hasDispatcher, chosen>>

ConnectStart(dispatcher, listeners) ==
    /\ hasDispatcher = dispatcher
    /\ chosen = listeners
    /\ chains = <<>>
    /\ connectPc = "idle"
    /\ connectResult = Pending

ConnectIdle == ConnectStart(FALSE, <<>>)

-----------------------------------------------------------------------------
(***************************************************************************)
(* The textual form of an address: str(a) and Q2QAddress.fromString.       *)
(***************************************************************************)

VARIABLES
    addrIn,     \* the address a
    addrText,   \* str(a)
    addrOut,    \* Q2QAddress.fromString(str(a))
    addrPc      \* "idle" | "new" | "text" | "parsed"

addrVars == <<addrIn, addrText, addrOut, addrPc>>

\* string.split(sep, 1): at most one split, at the first separator.
split1(str, sep) ==
    IF \A k \in 1..Len(str) : str[k] # sep THEN <<str>>
    ELSE LET k == CHOOSE k \in 1..Len(str) :
                      str[k] = sep /\ \A j \in 1..(k - 1) : str[j] # sep
         IN <<SubSeq(str, 1, k - 1), SubSeq(str, k + 1, Len(str))>>

\* fromString splitting at the last '@' instead of the first.
fromString_lastAt(string) ==
    IF \A k \in 1..Len(string) : string[k] # "@" THEN Q2QAddress(string, None)
    ELSE LET k == CHOOSE k \in 1..Len(string) :
                      string[k] = "@" /\ \A j \in (k + 1)..Len(string) : string[j] # "@"
         IN Q2QAddress(SubSeq(string, k + 1, Len(string)),
                       Some(SubSeq(string, 1, k - 1)))

\* Q2QAddress.fromString: args = string.split("@", 1); args.reverse();
\* cls(*args), where resource defaults to None.
fromString(string) ==
    LET args == split1(string, "@")
    IN IF Len(args) = 1 THEN Q2QAddress(args[1], None)
       ELSE Q2QAddress(args[2], Some(args[1]))

\* str(a)
addrStr ==
    /\ addrPc = "new"
    /\ addrText' = Str(addrIn)
    /\ addrPc' = "text"
    /\ UNCHANGED <<addrIn, addrOut>>

\* Q2QAddress.fromString of that text
addrParse ==
    /\ addrPc = "text"
    /\ addrOut' = fromString(addrText)
    /\ addrPc' = "parsed"
    /\ UNCHANGED <<addrIn, addrText>>

AddrStart(a, pc) ==
    /\ addrIn = a
    /\ addrText = <<>>
    /\ addrOut = a
    /\ addrPc = pc

AddrIdle == AddrStart(Q2QAddress(<<>>, None), "idle")

-----------------------------------------------------------------------------
(***************************************************************************)
(* The direct-splice port, byte by byte: Q2QTCPListener reads the line     *)
(* 'Q2Q <id>' and hands everything after it to the reserved sub-protocol.  *)
(***************************************************************************)

VARIABLES
    spliceStream,   \* the bytes the connector sends
    spliceAt,       \* how many of them have arrived
    listener        \* the Q2QTCPListener: buf, subProtocol, what its
                    \*   sub-protocol received, how the connection was dropped,
                    \*   and (history) the sizes of the chunks received

spliceVars == <<spliceStream, spliceAt, listener>>

\* buf.split('\r\n', 1)
splitCRLF1(buf) ==
    IF \A k \in 1..(Len(buf) - 1) : ~(buf[k] = "\r" /\ buf[k + 1] = "\n")
    THEN <<buf>>
    ELSE LET k == CHOOSE k \in 1..(Len(buf) - 1) :
                      /\ buf[k] = "\r" /\ buf[k + 1] = "\n"
                      /\ \A j \in 1..(k - 1) : ~(buf[j] = "\r" /\ buf[j + 1] = "\n")
         IN <<SubSeq(buf, 1, k - 1), SubSeq(buf, k + 2, Len(buf))>>

\* Q2QTCPListener.dataReceived that forgets what came with the line's end.
listenerDataReceived_dropsRest(l, data, reserved) ==
    IF l.subProtocol = None
    THEN LET buf == l.buf \o data
             bufz == splitCRLF1(buf)
         IN IF Len(bufz) > 1
            THEN LET intro == bufz[1]
                     rest == bufz[2]
                     words == split1(intro, " ")
                 IN IF Len(words) < 2
                    THEN [l EXCEPT !.buf = buf, !.lost = "ValueError"]
                    ELSE IF words[1] # <<"Q", "2", "Q">>
                    THEN [l EXCEPT !.buf = buf, !.lost = "loseConnection"]
                    ELSE IF words[2] \notin reserved
                    THEN [l EXCEPT !.buf = buf, !.lost = "TypeError"]
                    ELSE [l EXCEPT !.buf = buf, !.subProtocol = Some(words[2]),
                                   !.out = <<>>]
            ELSE [l EXCEPT !.buf = buf]
    ELSE [l EXCEPT !.out = @ \o data]

\* Q2QTCPListener.dataReceived(data) on listener state l; `reserved` are the
\* ids protocolAndAuthFromId finds.  An exception leaves dataReceived and
\* the reactor drops the connection.
listenerDataReceived(l, data, reserved) ==
    IF l.subProtocol = None
    THEN LET buf == l.buf \o data
             bufz == splitCRLF1(buf)
         IN IF Len(bufz) > 1
            THEN LET intro == bufz[1]
                     rest == bufz[2]
                     words == split1(intro, " ")
                 IN IF Len(words) < 2
                    THEN [l EXCEPT !.buf = buf, !.lost = "ValueError"]
                    ELSE IF words[1] # <<"Q", "2", "Q">>
                    THEN [l EXCEPT !.buf = buf, !.lost = "loseConnection"]
                    ELSE IF words[2] \notin reserved
                    THEN [l EXCEPT !.buf = buf, !.lost = "TypeError"]
                    ELSE [l EXCEPT !.buf = buf, !.subProtocol = Some(words[2]),
                                   !.out = rest]
            ELSE [l EXCEPT !.buf = buf]
    ELSE [l EXCEPT !.out = @ \o data]

\* The id of the reservation that is pending when the connection arrives.
ReservedId == <<"7">>

\* The next chunk of n bytes arrives.
spliceChunk(n) ==
    /\ listener.lost = ""
    /\ spliceAt + n <= Len(spliceStream)
    /\ spliceAt' = spliceAt + n
    /\ listener' = [listenerDataReceived(
                        listener, SubSeq(spliceStream, spliceAt + 1, spliceAt + n),
                        {ReservedId})
                    EXCEPT !.chunks = Append(@, n)]
    /\ UNCHANGED spliceStream

\* Q2QTCPConnector.connectionMade writes 'Q2Q %s\r\n' % connectionID; what
\* its sub-protocol writes follows.
connectorStream(connectionID, written) ==
    <<"Q", "2", "Q", " ">> \o connectionID \o <<"\r", "\n">> \o written

SpliceStart(stream) ==
    /\ spliceStream = stream
    /\ spliceAt = 0
    /\ listener = [buf |-> <<>>, subProtocol |-> None, out |-> <<>>, lost |-> "",
                   chunks |-> <<>>]

SpliceIdle == SpliceStart(<<>>)

-----------------------------------------------------------------------------
(***************************************************************************)
(* Q2QService.listenQ2Q on a client's service: the secure connection to    *)
(* the own domain, the Listen command on it, startup when it is answered   *)
(* and shutdown when the connection is lost.  service.factories is the     *)
(* service's localFactoriesMapping here.                                   *)
(***************************************************************************)

VARIABLES
    listens,        \* the listenQ2Q calls made so far
    secureConns     \* the connections getSecureConnection gave to listenQ2Q:
                    \*   [state, observers (the calls whose shutdown is registered)]

listenQ2QVars == <<listens, secureConns>>

RECURSIVE Zeros(_)
\* A counter per item, all at nought.
Zeros(n) == IF n = 0 THEN <<>> ELSE Append(Zeros(n - 1), 0)

\* One call of listenQ2Q; protocolsToFactories in the order iteritems()
\* yields it.  doStart and doStop count, per item, the calls of
\* factory.doStart() and factory.doStop() made for this call (history).
ListenCall(fromAddress, protocolsToFactories, serverDescription) ==
    [fromAddress |-> fromAddress, protocolsToFactories |-> protocolsToFactories,
     serverDescription |-> serverDescription, stage |-> "securing", proto |-> "",
     doStart |-> Zeros(Len(protocolsToFactories)),
     doStop |-> Zeros(Len(protocolsToFactories))]

\* The state listenQ2Q and its callbacks work on.
Listening == [lfm |-> service.factories, listens |-> listens,
              secureConns |-> secureConns]

RECURSIVE startupLoop(_, _, _)
\* for protocol, factory in protocolsToFactories.iteritems(): from item j on
startupLoop(l, i, j) ==
    LET call == l.listens[i] IN
    IF j > Len(call.protocolsToFactories) THEN l
    ELSE LET key == <<call.fromAddress, call.protocolsToFactories[j][1]>>
             factory == call.protocolsToFactories[j][2]
             old == IF key \in DOMAIN l.lfm THEN l.lfm[key] ELSE <<>>
         IN startupLoop([l EXCEPT !.lfm = Put(@, key,
                                       Append(old, <<factory, call.serverDescription>>)),
                                  !.listens[i].doStart[j] = @ + 1],
                        i, j + 1)

\* startup(listenResult) of listenQ2Q's call i
startup(l, i) ==
    LET r == startupLoop(l, i, 1) IN
    [r EXCEPT !.listens[i].stage = "registered",
              !.secureConns[l.listens[i].proto].observers = Append(@, i)]

RECURSIVE shutdownLoop(_, _, _)
\* for protocol, factory in protocolsToFactories.iteritems(): from item j on
shutdownLoop(l, i, j) ==
    LET call == l.listens[i] IN
    IF j > Len(call.protocolsToFactories) THEN l
    ELSE LET key == <<call.fromAddress, call.protocolsToFactories[j][1]>>
             factory == call.protocolsToFactories[j][2]
         IN shutdownLoop([l EXCEPT !.lfm[key] =
                                       ListRemove(@, <<factory, call.serverDescription>>),
                                   !.listens[i].doStop[j] = @ + 1],
                         i, j + 1)

\* shutdown() that stops the factories and leaves them registered.
shutdown_stopsOnly(l, i) ==
    [l EXCEPT !.listens[i].stage = "shutdown",
              !.listens[i].doStop = l.listens[i].doStart]

\* shutdown() of listenQ2Q's call i
shutdown(l, i) ==
    [shutdownLoop(l, i, 1) EXCEPT !.listens[i].stage = "shutdown"]

RECURSIVE lostObservers(_, _)
\* for observer in self.connectionObservers: safely(observer)
lostObservers(l, obs) ==
    IF obs = <<>> THEN l
    ELSE lostObservers(shutdown(l, Head(obs)), Tail(obs))

MaxListenCalls == 2

\* The secure connections of the service to its domain's server.
SecureConns == {"s1", "s2"}

\* listenQ2Q(fromAddress, protocolsToFactories, serverDescription):
\* getSecureConnection to the domain is asked; the rest are callbacks.
listenQ2Q(fromAddress, protocolsToFactories, serverDescription) ==
    /\ Len(listens) < MaxListenCalls
    /\ listens' = Append(listens,
                         ListenCall(fromAddress, protocolsToFactories, serverDescription))
    /\ UNCHANGED <<service, secureConns>>

\* _secured(proto) and _gotPubUDPPort of call i: getSecureConnection gave
\* the open connection c, and Listen is sent on it.
secured(i, c) ==
    /\ listens[i].stage = "securing"
    /\ secureConns[c].state = "open"
    /\ listens' = [listens EXCEPT ![i].stage = "listening", ![i].proto = c]
    /\ UNCHANGED <<service, secureConns>>

\* getSecureConnection, or the public UDP port's retrieval, fails for call i.
securingFails(i) ==
    /\ listens[i].stage = "securing"
    /\ listens' = [listens EXCEPT ![i].stage = "failed"]
    /\ UNCHANGED <<service, secureConns>>

\* The answer to Listen of call i arrives: startup.
listenAcknowledged(i) ==
    /\ listens[i].stage = "listening"
    /\ LET l == startup(Listening, i) IN
       /\ service' = [service EXCEPT !.factories = l.lfm]
       /\ listens' = l.listens
       /\ secureConns' = l.secureConns

\* Listen of call i is answered with an error: startup does not run.
listenRefused(i) ==
    /\ listens[i].stage = "listening"
    /\ listens' = [listens EXCEPT ![i].stage = "refused"]
    /\ UNCHANGED <<service, secureConns>>

RECURSIVE failListens(_, _)
\* juice.Juice.connectionLost on connection c: the Deferred of every Listen
\* still unanswered on it fails.
failListens(ls, c) ==
    IF ls = <<>> THEN <<>>
    ELSE <<IF Head(ls).proto = c /\ Head(ls).stage = "listening"
           THEN [Head(ls) EXCEPT !.stage = "failed"]
           ELSE Head(ls)>> \o failListens(Tail(ls), c)

\* Q2Q.connectionLost on the secure connection c: the Listen commands
\* still unanswered fail (juice.Juice.connectionLost), then the observers.
secureConnectionLost(c) ==
    /\ secureConns[c].state = "open"
    /\ LET failed == [lfm |-> service.factories,
                      listens |-> failListens(listens, c),
                      secureConns |-> [secureConns EXCEPT ![c].state = "lost"]]
           l == lostObservers(failed, secureConns[c].observers)
       IN /\ service' = [service EXCEPT !.factories = l.lfm]
          /\ listens' = l.listens
          /\ secureConns' = l.secureConns

ListenQ2QIdle ==
    /\ listens = <<>>
    /\ secureConns = [c \in SecureConns |-> [state |-> "open", observers |-> <<>>]]

-----------------------------------------------------------------------------
(***************************************************************************)
(* Q2Q.connectionMade: the Source-IP command a new connection sends and    *)
(* its answer.                                                             *)
(***************************************************************************)

VARIABLES
    sourceIP        \* [Q2Q -> [asked, pending]]: whether connectionMade sent
                    \*   Source-IP on the connection (history), and whether its
                    \*   answer is still awaited

sourceIPVars == <<sourceIP>>

\* connectionMade that sends Source-IP whatever the service knows.
connectionMade_alwaysAsks(q) ==
    /\ connState[q] = "unmade"
    /\ connState' = [connState EXCEPT ![q] = "open"]
    /\ connections' = [connections EXCEPT ![q] = EmptyDict]
    /\ listeningClient' = [listeningClient EXCEPT ![q] = <<>>]
    /\ connectionObservers' = [connectionObservers EXCEPT ![q] = <<>>]
    /\ service' = IF service.publicIP = None
                  THEN [service EXCEPT !.publicIP = Some(determinePrivateIP(q)),
                                       !.reallyPrivate = TRUE]
                  ELSE service
    /\ sourceIP' = [sourceIP EXCEPT ![q] = [asked |-> TRUE, pending |-> TRUE]]
    /\ UNCHANGED <<sec, publicIP, listened, vts>>

\* Q2Q.connectionMade
connectionMade(q) ==
    /\ connState[q] = "unmade"
    /\ connState' = [connState EXCEPT ![q] = "open"]
    /\ connections' = [connections EXCEPT ![q] = EmptyDict]
    /\ listeningClient' = [listeningClient EXCEPT ![q] = <<>>]
    /\ connectionObservers' = [connectionObservers EXCEPT ![q] = <<>>]
    /\ IF service.publicIP = None
       THEN /\ service' = [service EXCEPT !.publicIP = Some(determinePrivateIP(q)),
                                          !.reallyPrivate = TRUE]
            /\ sourceIP' = [sourceIP EXCEPT ![q] = [asked |-> TRUE, pending |-> TRUE]]
       ELSE UNCHANGED <<service, sourceIP>>
    /\ UNCHANGED <<sec, publicIP, listened, vts>>

\* rememberPublicIP(pubip): the answer to the Source-IP of connection q
rememberPublicIP(q, ip) ==
    /\ connState[q] = "open"
    /\ sourceIP[q].pending
    /\ publicIP' = [publicIP EXCEPT ![q] = Some(ip)]
    /\ service' = [service EXCEPT !.publicIP = Some(ip), !.reallyPrivate = FALSE]
    /\ sourceIP' = [sourceIP EXCEPT ![q].pending = FALSE]
    /\ UNCHANGED <<connState, sec, listeningClient, connections, connectionObservers,
                   listened, vts>>

\* Q2Q.connectionLost on q; an unanswered Source-IP fails with it.
sourceConnectionLost(q) ==
    /\ ConnectionLost(q)
    /\ sourceIP' = [sourceIP EXCEPT ![q].pending = FALSE]

SourceIPIdle == sourceIP = [q \in Q2Qs |-> [asked |-> FALSE, pending |-> FALSE]]

-----------------------------------------------------------------------------
(***************************************************************************)
(* The claims made on the reservations of S, in the order they were        *)
(* handled.                                                                *)
(***************************************************************************)

VARIABLES
    claimLog        \* history: the Claim of every VIRTUAL command and splice
                    \*   line handled so far

claimVars == <<claimLog>>

MaxClaims == 3

\* Q2Q.command_VIRTUAL(id) on q, noted in the log.
claimByVirtual(q, id) ==
    /\ Len(claimLog) < MaxClaims
    /\ command_VIRTUAL(q, id, FALSE)
    /\ claimLog' = Append(claimLog, lastClaim')

\* A first line 'Q2Q <id>' on the direct-splice port, noted in the log.
claimBySplice(id) ==
    /\ Len(claimLog) < MaxClaims
    /\ SpliceLine("Q2Q", id)
    /\ claimLog' = Append(claimLog, lastClaim')

ClaimIdle == claimLog = <<>>

\* The parts of the model added last, and their state at rest.
moreVars == <<listenQ2QVars, sourceIPVars, claimVars>>
MoreIdle == ListenQ2QIdle /\ SourceIPIdle /\ ClaimIdle

extVars == <<storeVars, signVars, cacheVars, secVars, connectVars, addrVars,
            spliceVars, moreVars>>
ExtIdle ==
    /\ StoreStart(EmptyDict, EmptyDict, EmptyDict)
    /\ SignIdle
    /\ CacheStart
    /\ SecureIdle
    /\ ConnectIdle
    /\ AddrIdle
    /\ SpliceIdle
    /\ MoreIdle

-----------------------------------------------------------------------------
(***************************************************************************)
(* Specifications.  Each one exercises one part of the program; the        *)
(* variables of the other parts stay at rest.                              *)
(***************************************************************************)

vars == <<dialVars, verifyVars, connVars, svcVars, virtVars, extVars>>

DialIdle == DialStart(<<>>)

\* S with its two server-side connections open and secured: c1 to a client
\* of Alice, c2 to a client that holds cert2; p1 is the client's end of c1.
\* `factories` is what getLocalFactories finds.
ServiceStartCfg(factories, cert2, authorized1, authorized2, cfg) ==
    /\ connState = [q \in Q2Qs |-> "open"]
    /\ sec = [q \in Q2Qs |->
                IF q = "c1" THEN [authorized |-> authorized1, hostCertificate |-> DomainCert,
                                  peerCert |-> AliceCert]
                ELSE IF q = "c2" THEN [authorized |-> authorized2, hostCertificate |-> DomainCert,
                                       peerCert |-> cert2]
                ELSE [authorized |-> TRUE, hostCertificate |-> AliceCert,
                      peerCert |-> DomainCert]]
    /\ publicIP = [q \in Q2Qs |-> None]
    /\ listeningClient = [q \in Q2Qs |-> <<>>]
    /\ connections = [q \in Q2Qs |-> EmptyDict]
    /\ connectionObservers = [q \in Q2Qs |-> <<>>]
    /\ listened = [q \in Q2Qs |-> 0]
    /\ vts = <<>>
    /\ service = [publicIP |-> cfg.publicIP, reallyPrivate |-> FALSE,
                  inboundTCPPort |-> cfg.inboundTCPPort, dispatcher |-> cfg.dispatcher,
                  factories |-> factories, running |-> TRUE]
    /\ listeningClients = EmptyDict
    /\ inboundConnections = EmptyDict
    /\ timers = EmptyDict
    /\ lastConnID = 1
    /\ natSeeds = {}
    /\ inbound = None
    /\ lastReply = NoAnswer
    /\ lastClaim = NoClaim
    /\ wire = [q \in Q2Qs |-> <<>>]

\* The configuration of S in most scenarios: a public IP, the inbound TCP
\* port listening, the PTCP dispatcher running.
DefaultCfg == [publicIP |-> Some("pub"), inboundTCPPort |-> Some("tcpPort"),
               dispatcher |-> TRUE]

ServiceStartAuth(factories, cert2, authorized1, authorized2) ==
    ServiceStartCfg(factories, cert2, authorized1, authorized2, DefaultCfg)

\* The same with both connections authorized.
ServiceStart(factories, cert2) == ServiceStartAuth(factories, cert2, TRUE, TRUE)

ServiceIdle == ServiceStart(EmptyDict, BobCert)

\* One dial chain, over every list of attempt outcomes up to MaxAttempts.
InitDial ==
    /\ ExtIdle
    /\ \E fs \in AttemptLists : DialStart(fs)
    /\ VerifyIdle
    /\ ServiceIdle

NextDial ==
    \/ (DialCall /\ UNCHANGED <<extVars, verifyVars, connVars, svcVars, virtVars>>)
    \/ (AttemptSucceeds /\ UNCHANGED <<extVars, verifyVars, connVars, svcVars, virtVars>>)
    \/ (AttemptFails /\ UNCHANGED <<extVars, verifyVars, connVars, svcVars, virtVars>>)

SpecDial == InitDial /\ [][NextDial]_vars

\* One call of verifyCertificateAllowed, over the addresses and certificates above.
InitVerify ==
    /\ ExtIdle
    /\ VerifyStart
    /\ DialIdle
    /\ ServiceIdle

NextVerify == VerifyCall /\ UNCHANGED <<extVars, dialVars, connVars, svcVars, virtVars>>

SpecVerify == InitVerify /\ [][NextVerify]_vars

\* The reservation table: S serves (Alice, Echo) with local factories;
\* INBOUND reserves, VIRTUAL and direct splices claim, timers fire,
\* connections are lost, the service stops.
LocalFactoryLists ==
    { <<<<GoodFactory, "home">>>>, <<<<RaisingFactory, "home">>>>,
      <<<<SulkyFactory, "home">>, <<GoodFactory, "lab">>>> }

\* Every id mapListener can hand out within MaxConnID.
ChannelIds == { nextConnectionID(Bob, Alice, n) : n \in 1..MaxConnID }

UdpSources == { None, Some("pub") }

InitResv ==
    /\ ExtIdle
    /\ \E fl \in LocalFactoryLists : ServiceStart(Put(EmptyDict, <<Alice, Echo>>, fl), BobCert)
    /\ DialIdle
    /\ VerifyIdle

\* The first word of a line on the direct-splice port.
SpliceCommands == {"Q2Q", "GET"}

NextResv ==
    \/ \E q \in Servers, udp \in UdpSources :
          command_INBOUND(q, Bob, Alice, Echo, udp) /\ UNCHANGED <<extVars, dialVars, verifyVars, virtVars>>
    \/ \E q \in Servers, id \in ChannelIds :
          command_VIRTUAL(q, id, FALSE) /\ UNCHANGED <<extVars, dialVars, verifyVars, virtVars>>
    \/ \E command \in SpliceCommands, id \in ChannelIds : SpliceLine(command, id) /\ UNCHANGED <<extVars, dialVars, verifyVars, virtVars>>
    \/ \E id \in ChannelIds : TimerFires(id) /\ UNCHANGED <<extVars, dialVars, verifyVars, virtVars>>
    \/ (stopService /\ UNCHANGED <<extVars, dialVars, verifyVars, virtVars>>)
    \/ \E q \in Servers : ConnectionLost(q) /\ UNCHANGED <<extVars, dialVars, verifyVars>>

SpecResv == InitResv /\ [][NextResv]_vars

\* Loss of a connection that carries virtual channels and has observers:
\* INBOUND reserves, VIRTUAL opens channels on either connection, observers
\* register on c1, connections are lost.
NextLoss ==
    \/ \E q \in Servers :
          command_INBOUND(q, Bob, Alice, Echo, None) /\ UNCHANGED <<extVars, dialVars, verifyVars, virtVars>>
    \/ \E q \in Servers, id \in ChannelIds :
          command_VIRTUAL(q, id, FALSE) /\ UNCHANGED <<extVars, dialVars, verifyVars, virtVars>>
    \/ \E raises \in BOOLEAN :
          notifyOnConnectionLost("c1", Observer(raises))
             /\ UNCHANGED <<extVars, dialVars, verifyVars, virtVars>>
    \/ \E q \in Servers : ConnectionLost(q) /\ UNCHANGED <<extVars, dialVars, verifyVars>>

SpecLoss == InitResv /\ [][NextLoss]_vars

\* Two virtual channels on c1, the protocol of one or both raising in
\* dataReceived, and WRITEs for them arriving in any order.
WriteFactoryLists ==
    { <<<<FussyFactory, "home">>, <<GoodFactory, "lab">>>>,
      <<<<GoodFactory, "home">>, <<FussyFactory, "lab">>>>,
      <<<<FussyFactory, "home">>, <<FussyFactory, "lab">>>>,
      <<<<GoodFactory, "home">>, <<SulkyFactory, "lab">>>> }

WriteIds == { nextConnectionID(Alice, Alice, n) : n \in 1..MaxConnID }

InitWrite ==
    /\ ExtIdle
    /\ \E fl \in WriteFactoryLists :
          ServiceStart(Put(EmptyDict, <<Alice, Echo>>, fl), BobCert)
    /\ DialIdle
    /\ VerifyIdle

NextWrite ==
    \/ (command_INBOUND("c1", Alice, Alice, Echo, None)
          /\ UNCHANGED <<extVars, dialVars, verifyVars, virtVars>>)
    \/ \E id \in WriteIds :
          command_VIRTUAL("c1", id, FALSE)
             /\ UNCHANGED <<extVars, dialVars, verifyVars, virtVars>>
    \/ \E id \in WriteIds : peerWrites(id) /\ UNCHANGED <<extVars, dialVars, verifyVars>>
    \/ (juice_WRITE("c1") /\ UNCHANGED <<extVars, dialVars, verifyVars>>)

SpecWrite == InitWrite /\ [][NextWrite]_vars

\* INBOUND for a local factory on a Service with or without its inbound
\* TCP port and PTCP dispatcher, from a peer that names a UDP source or not.
ServiceCfgs ==
    { [publicIP |-> Some("pub"), inboundTCPPort |-> tcp, dispatcher |-> d] :
         tcp \in {None, Some("tcpPort")}, d \in BOOLEAN }

InitMethods ==
    /\ ExtIdle
    /\ \E fl \in LocalFactoryLists, cfg \in ServiceCfgs :
          ServiceStartCfg(Put(EmptyDict, <<Alice, Echo>>, fl), BobCert, TRUE, TRUE, cfg)
    /\ DialIdle
    /\ VerifyIdle

MethodsFrame == UNCHANGED <<extVars, dialVars, verifyVars, virtVars>>

NextMethods ==
    \/ \E q \in Servers, udp \in UdpSources :
          command_INBOUND(q, Bob, Alice, Echo, udp) /\ MethodsFrame
    \/ \E id \in ChannelIds : TimerFires(id) /\ MethodsFrame

SpecMethods == InitMethods /\ [][NextMethods]_vars

\* Virtual channels: the client of c1 asks for Alice's Echo listeners,
\* connects to them with VirtualMethod, both ends write and close, either
\* end loses the connection.
VirtFactoryLists ==
    { <<<<GoodFactory, "home">>>>, <<<<RaisingFactory, "home">>>>,
      <<<<FussyFactory, "home">>>> }
ClientFactories == {GoodFactory, SulkyFactory, RaisingFactory}
\* The client connects to the first listener S reserved, or tries before
\* S reserved it.
VirtIds == { nextConnectionID(Alice, Alice, 1) }
Ends == {"p1", "c1"}

InitVirt ==
    /\ ExtIdle
    /\ \E fl \in VirtFactoryLists :
          ServiceStart(Put(EmptyDict, <<Alice, Echo>>, fl), BobCert)
    /\ DialIdle
    /\ VerifyIdle

NextVirt ==
    \/ (command_INBOUND("c1", Alice, Alice, Echo, None)
          /\ UNCHANGED <<extVars, dialVars, verifyVars, virtVars>>)
    \/ \E id \in VirtIds, f \in ClientFactories :
          attemptConnect("p1", id, f) /\ UNCHANGED <<extVars, dialVars, verifyVars>>
    \/ \E greets \in BOOLEAN :
          virtualReceived("c1", greets) /\ UNCHANGED <<extVars, dialVars, verifyVars>>
    \/ \E i \in 1..Len(vts) : protocolWrites(i) /\ UNCHANGED <<extVars, dialVars, verifyVars>>
    \/ \E i \in 1..Len(vts) : loseConnection(i) /\ UNCHANGED <<extVars, dialVars, verifyVars>>
    \/ \E q \in Ends : juice_WRITE(q) /\ UNCHANGED <<extVars, dialVars, verifyVars>>
    \/ \E q \in Ends : juice_CLOSE(q) /\ UNCHANGED <<extVars, dialVars, verifyVars>>
    \/ \E q \in Ends : answerReceived(q) /\ UNCHANGED <<extVars, dialVars, verifyVars>>
    \/ \E q \in Ends : ConnectionLost(q) /\ UNCHANGED <<extVars, dialVars, verifyVars>>

SpecVirt == InitVirt /\ [][NextVirt]_vars

\* The virtual channel with loseConnection called more than once; the
\* client's protocol is a good one and is the one that writes.
NextClose ==
    \/ (command_INBOUND("c1", Alice, Alice, Echo, None)
          /\ UNCHANGED <<extVars, dialVars, verifyVars, virtVars>>)
    \/ \E id \in VirtIds :
          attemptConnect("p1", id, GoodFactory) /\ UNCHANGED <<extVars, dialVars, verifyVars>>
    \/ (virtualReceived("c1", FALSE) /\ UNCHANGED <<extVars, dialVars, verifyVars>>)
    \/ \E i \in 1..Len(vts) :
          /\ vts[i].q2q = "p1"
          /\ protocolWrites(i)
          /\ UNCHANGED <<extVars, dialVars, verifyVars>>
    \/ \E i \in 1..Len(vts) : loseConnection(i) /\ UNCHANGED <<extVars, dialVars, verifyVars>>
    \/ \E i \in 1..Len(vts) :
          loseConnectionAgain(i) /\ UNCHANGED <<extVars, dialVars, verifyVars>>
    \/ \E q \in Ends : juice_WRITE(q) /\ UNCHANGED <<extVars, dialVars, verifyVars>>
    \/ \E q \in Ends : juice_CLOSE(q) /\ UNCHANGED <<extVars, dialVars, verifyVars>>
    \/ \E q \in Ends : answerReceived(q) /\ UNCHANGED <<extVars, dialVars, verifyVars>>
    \/ \E q \in Ends : ConnectionLost(q) /\ UNCHANGED <<extVars, dialVars, verifyVars>>

SpecClose == InitVirt /\ [][NextClose]_vars

\* An end of the connection handles the next box it has received.
Delivery(q) ==
    (virtualReceived(q, FALSE) \/ juice_WRITE(q) \/ juice_CLOSE(q) \/ answerReceived(q))
    /\ UNCHANGED <<extVars, dialVars, verifyVars>>

\* The same with the reactor's part stated: as long as the connection is
\* up, a box that has arrived at an end is handled by it.
SpecVirtFair == SpecVirt /\ \A q \in Ends : WF_vars(Delivery(q))

\* The listener registry: clients LISTEN on c1 and c2 (c2's client holds
\* Alice's certificate or Bob's), with or without a local factory for
\* (Alice, Echo); INBOUND is relayed to the registered listeners, whose
\* answers are whatever a client may send; connections are lost.
ListenProtocolLists ==
    { <<Echo>>, <<Echo, Echo>>, <<Internal>>, <<Echo, Internal>>, <<Internal, Echo>> }
Descriptions == {"home", "lab"}
ListenFactories ==
    { EmptyDict, Put(EmptyDict, <<Alice, Echo>>, <<<<GoodFactory, "home">>>>) }

\* Entries of a listening client's answer to the forwarded INBOUND: one
\* that names no certificate, two that name the domain's certificate, one
\* with a method this version does not know.
ClientListenerId == nextConnectionID(Bob, Alice, 1)
HonestInfo ==
    ListenerInfo(ClientListenerId, None,
                 <<Method("tcp", "client", "clientPort"), VirtualMethod>>,
                 "honest", "client")
ForgedInfo ==
    ListenerInfo(ClientListenerId, Some(DomainCert),
                 <<Method("tcp", "client", "clientPort")>>, "forged", "client")
VirtualOnlyInfo ==
    ListenerInfo(ClientListenerId, Some(DomainCert), <<VirtualMethod>>,
                 "virtualOnly", "client")
UnknownInfo ==
    ListenerInfo(ClientListenerId, None, <<UnknownMethod>>, "unknown", "client")
RelayReplies ==
    { <<>>, <<HonestInfo>>, <<ForgedInfo>>, <<VirtualOnlyInfo>>, <<UnknownInfo>>,
      <<ForgedInfo, HonestInfo>> }

\* The listeners of the forwarded INBOUND that have not answered yet.
Waiting == IF inbound = None THEN {} ELSE inbound[1].waiting

InitListen ==
    /\ ExtIdle
    /\ \E fs \in ListenFactories, cert2 \in {AliceCert, BobCert} : ServiceStart(fs, cert2)
    /\ DialIdle
    /\ VerifyIdle

NextListen ==
    \/ \E q \in Servers, protocols \in ListenProtocolLists, From \in {Alice, Bob},
          description \in Descriptions :
          command_LISTEN(q, protocols, From, description)
             /\ UNCHANGED <<extVars, dialVars, verifyVars, virtVars>>
    \/ \E q \in Servers : ConnectionLost(q) /\ UNCHANGED <<extVars, dialVars, verifyVars>>

SpecListen == InitListen /\ [][NextListen]_vars

\* Relayed INBOUND: Alice's client on c1 listens for Echo, once or several
\* times; a client asks for Alice's Echo listeners in Bob's name, and S
\* forwards the question to each registered listener.
InitRelay ==
    /\ ExtIdle
    /\ \E fs \in ListenFactories : ServiceStart(fs, BobCert)
    /\ DialIdle
    /\ VerifyIdle

NextRelay ==
    \/ (command_LISTEN("c1", <<Echo>>, Alice, "home")
          /\ UNCHANGED <<extVars, dialVars, verifyVars, virtVars>>)
    \/ \E q \in Servers :
          command_INBOUND(q, Bob, Alice, Echo, None)
             /\ UNCHANGED <<extVars, dialVars, verifyVars, virtVars>>
    \/ \E i \in Waiting, irl \in RelayReplies :
          RelayedInboundAnswer(i, irl) /\ UNCHANGED <<extVars, dialVars, verifyVars, virtVars>>
    \/ \E i \in Waiting : RelayedInboundFails(i) /\ UNCHANGED <<extVars, dialVars, verifyVars, virtVars>>
    \/ \E q \in Servers : ConnectionLost(q) /\ UNCHANGED <<extVars, dialVars, verifyVars>>

SpecRelay == InitRelay /\ [][NextRelay]_vars

\* The commands that claim identities, on connections that are authorized
\* or not, in the names of Alice, Bob and the anonymous address.  Each
\* client listens at most once, and INBOUND is asked while no reservation
\* is open.
UdpHosts == {"pub", "client"}

InitGate ==
    /\ ExtIdle
    /\ \E fs \in ListenFactories, authorized2 \in BOOLEAN :
          ServiceStartAuth(fs, BobCert, TRUE, authorized2)
    /\ DialIdle
    /\ VerifyIdle

GateFrame == UNCHANGED <<extVars, dialVars, verifyVars, virtVars>>

NextGate ==
    \/ \E q \in Servers, From \in {Alice, Bob, Anonymous} :
          /\ listeningClient[q] = <<>>
          /\ command_LISTEN(q, <<Echo>>, From, "home")
          /\ GateFrame
    \/ \E q \in Servers, From \in {Bob, Anonymous}, udp \in UdpSources :
          /\ inboundConnections = EmptyDict
          /\ command_INBOUND(q, From, Alice, Echo, udp)
          /\ GateFrame
    \/ \E q \in Servers, q2qdst \in {Bob, Anonymous}, srchost \in UdpHosts :
          command_BIND_UDP(q, Alice, q2qdst, <<srchost, "srcPort">>, "dst", Echo)
             /\ GateFrame
    \/ \E i \in Waiting : RelayedInboundAnswer(i, <<HonestInfo>>) /\ GateFrame
    \/ \E i \in Waiting : RelayedInboundFails(i) /\ GateFrame

SpecGate == InitGate /\ [][NextGate]_vars

\* listenQ2Q on a client's service: what the callers listen with.
ListenItems ==
    { <<<<Echo, GoodFactory>>>>,
      <<<<Echo, GoodFactory>>, <<Chat, SulkyFactory>>>>,
      <<<<Echo, SulkyFactory>>, <<Chat, SulkyFactory>>>> }

InitListenQ2Q ==
    /\ DialIdle
    /\ VerifyIdle
    /\ ServiceStart(EmptyDict, BobCert)
    /\ ExtIdle

\* The parts of the model listenQ2Q does not touch.
ListenQ2QFrame ==
    UNCHANGED <<storeVars, signVars, cacheVars, secVars, connectVars, addrVars,
                spliceVars, sourceIPVars, claimVars, dialVars, verifyVars, connVars,
                listeningClients,
                inboundConnections, timers, lastConnID, natSeeds, inbound, lastReply,
                lastClaim, virtVars>>

NextListenQ2Q ==
    \/ \E items \in ListenItems, description \in {"home", "lab"} :
          listenQ2Q(Alice, items, description) /\ ListenQ2QFrame
    \/ \E i \in 1..Len(listens), c \in SecureConns : secured(i, c) /\ ListenQ2QFrame
    \/ \E i \in 1..Len(listens) : securingFails(i) /\ ListenQ2QFrame
    \/ \E i \in 1..Len(listens) : listenAcknowledged(i) /\ ListenQ2QFrame
    \/ \E i \in 1..Len(listens) : listenRefused(i) /\ ListenQ2QFrame
    \/ \E c \in SecureConns : secureConnectionLost(c) /\ ListenQ2QFrame

SpecListenQ2Q == InitListenQ2Q /\ [][NextListenQ2Q]_vars

\* The connections of S before they are made: S with or without a
\* configured public IP.
InitSourceIP ==
    /\ DialIdle
    /\ VerifyIdle
    /\ ExtIdle
    /\ \E configured \in {None, Some("pub")} :
          /\ connState = [q \in Q2Qs |-> "unmade"]
          /\ sec = [q \in Q2Qs |-> [authorized |-> TRUE, hostCertificate |-> DomainCert,
                                    peerCert |-> BobCert]]
          /\ publicIP = [q \in Q2Qs |-> None]
          /\ listeningClient = [q \in Q2Qs |-> <<>>]
          /\ connections = [q \in Q2Qs |-> EmptyDict]
          /\ connectionObservers = [q \in Q2Qs |-> <<>>]
          /\ listened = [q \in Q2Qs |-> 0]
          /\ vts = <<>>
          /\ service = [publicIP |-> configured, reallyPrivate |-> FALSE,
                        inboundTCPPort |-> Some("tcpPort"), dispatcher |-> FALSE,
                        factories |-> Put(EmptyDict, <<Alice, Echo>>,
                                          <<<<GoodFactory, "home">>>>),
                        running |-> TRUE]
          /\ listeningClients = EmptyDict
          /\ inboundConnections = EmptyDict
          /\ timers = EmptyDict
          /\ lastConnID = 1
          /\ natSeeds = {}
          /\ inbound = None
          /\ lastReply = NoAnswer
          /\ lastClaim = NoClaim
          /\ wire = [q \in Q2Qs |-> <<>>]

\* The parts of the model the Source-IP exchange does not touch.
SourceIPFrame ==
    UNCHANGED <<storeVars, signVars, cacheVars, secVars, connectVars, addrVars,
                spliceVars, listenQ2QVars, claimVars, dialVars, verifyVars>>

\* What a peer may answer to Source-IP.
ObservedHosts == {"pub", "nat"}

NextSourceIP ==
    \/ \E q \in Servers :
          /\ connectionMade(q)
          /\ UNCHANGED <<listeningClients, inboundConnections, timers, lastConnID,
                         natSeeds, inbound, lastReply, lastClaim, wire>>
          /\ SourceIPFrame
    \/ \E q \in Servers, ip \in ObservedHosts :
          /\ rememberPublicIP(q, ip)
          /\ UNCHANGED <<listeningClients, inboundConnections, timers, lastConnID,
                         natSeeds, inbound, lastReply, lastClaim, wire>>
          /\ SourceIPFrame
    \/ \E q \in Servers : sourceConnectionLost(q) /\ SourceIPFrame
    \/ \E q \in Servers :
          /\ connState[q] = "open"
          /\ inboundConnections = EmptyDict
          /\ command_INBOUND(q, Bob, Alice, Echo, None)
          /\ UNCHANGED <<sourceIPVars, virtVars>>
          /\ SourceIPFrame

SpecSourceIP == InitSourceIP /\ [][NextSourceIP]_vars

\* The parts of the model the claims of reservations do not touch.
ClaimsFrame ==
    UNCHANGED <<storeVars, signVars, cacheVars, secVars, connectVars, addrVars,
                spliceVars, listenQ2QVars, sourceIPVars, dialVars, verifyVars>>

\* Reservations and every way to claim or lose them, in any order; the
\* claims are for ids that mapListener has handed out.
NextClaims ==
    \/ \E q \in {"c2"} :
          command_INBOUND(q, Bob, Alice, Echo, None)
             /\ UNCHANGED <<claimVars, virtVars>> /\ ClaimsFrame
    \/ \E q \in Servers, id \in DOMAIN timers :
          claimByVirtual(q, id) /\ UNCHANGED virtVars /\ ClaimsFrame
    \/ \E id \in DOMAIN timers : claimBySplice(id) /\ UNCHANGED virtVars /\ ClaimsFrame
    \/ \E id \in ChannelIds :
          TimerFires(id) /\ UNCHANGED <<claimVars, virtVars>> /\ ClaimsFrame
    \/ (stopService /\ UNCHANGED <<claimVars, virtVars>> /\ ClaimsFrame)

SpecClaims == InitResv /\ [][NextClaims]_vars

\* Callers of getSecureConnection: the service's users and an anonymous one.
CacheCallers == {Alice, Bob, Anonymous}

\* The private certificates a service may hold: its domain's, a user's.
CertificateStores == { Put(EmptyDict, Str(DomainD), DomainCert),
                       Put(EmptyDict, Str(Alice), AliceCert) }

InitCache ==
    /\ DialIdle
    /\ VerifyIdle
    /\ ServiceStart(EmptyDict, BobCert)
    /\ \E certs \in CertificateStores : StoreStart(certs, EmptyDict, EmptyDict)
    /\ SignIdle
    /\ CacheStart
    /\ SecureIdle
    /\ ConnectIdle
    /\ AddrIdle
    /\ SpliceIdle
    /\ MoreIdle

\* The parts of the model the cache does not touch.
CacheFrame == UNCHANGED <<moreVars, connectVars, addrVars, spliceVars, signVars, secVars, dialVars, verifyVars, connVars, svcVars, virtVars>>

NextCache ==
    \/ \E f \in CacheCallers, to \in {Alice, Bob}, authorize \in BOOLEAN :
          getSecureConnection(f, to, authorize) /\ CacheFrame
    \/ \E i \in 1..Len(gscCalls) : resolved(i) /\ CacheFrame
    \/ \E key \in DOMAIN inProgress : dialSucceeds(key) /\ CacheFrame
    \/ \E key \in DOMAIN inProgress : dialFails(key) /\ CacheFrame
    \/ \E key \in DOMAIN cachedConnections : cachedConnectionLost(key) /\ CacheFrame

SpecCache == InitCache /\ [][NextCache]_vars

\* The accounts of a server for domain d.
UserTables == { Put(EmptyDict, <<<<"d">>, <<"a">>>>, "s"),
                Put(Put(EmptyDict, <<<<"d">>, <<"a">>>>, "s"), <<<<"d">>, <<"b">>>>, "t") }

Passwords == {"s", "t"}

\* Subjects of certificate requests: well formed for a user, for an
\* unknown user, for another domain; without '@'; with two.
CommonNames == { Str(Alice), Str(Bob), <<"a", "@", "e">>, <<"a", "d">>,
                 <<"a", "@", "b", "@", "d">> }

CertReqs == { CertReq(<<"CN">>, cn) : cn \in CommonNames }
            \cup { CertReq(<<"CN", "O">>, Str(Alice)), CertReq(<<"O">>, <<>>) }

InitSign ==
    /\ DialIdle
    /\ VerifyIdle
    /\ ServiceStart(EmptyDict, BobCert)
    /\ \E accounts \in UserTables :
          StoreStart(Put(EmptyDict, Str(DomainD), DomainCert), EmptyDict, accounts)
    /\ SignIdle
    /\ CacheStart
    /\ SecureIdle
    /\ ConnectIdle
    /\ AddrIdle
    /\ SpliceIdle
    /\ MoreIdle

\* The parts of the model SIGN does not touch.
SignFrame == UNCHANGED <<moreVars, connectVars, addrVars, spliceVars, cacheVars, secVars, dialVars, verifyVars, connVars, svcVars, virtVars>>

NextSign ==
    \/ \E a \in {Alice, Bob}, secret \in Passwords :
          requestCertificateForAddress(a, secret) /\ SignFrame
    \/ \E req \in CertReqs, password \in Passwords : peerSign(req, password) /\ SignFrame
    \/ (command_SIGN /\ SignFrame)
    \/ (signAnswered /\ SignFrame)

SpecSign == InitSign /\ [][NextSign]_vars

\* What a peer may answer to Identify for domain d.
IdentifyCerts == {DomainCert, OtherDomainCert, AliceCert, AnonymousCert}

InitSecure ==
    /\ DialIdle
    /\ VerifyIdle
    /\ ServiceStart(EmptyDict, BobCert)
    /\ \E remote \in {EmptyDict, Put(EmptyDict, Str(DomainD), DomainCert)} :
          StoreStart(Put(EmptyDict, Str(DomainD), DomainCert), remote, EmptyDict)
    /\ SignIdle
    /\ CacheStart
    /\ SecureIdle
    /\ ConnectIdle
    /\ AddrIdle
    /\ SpliceIdle
    /\ MoreIdle

\* The parts of the model SECURE does not touch.
SecureFrame == UNCHANGED <<moreVars, connectVars, addrVars, spliceVars, signVars, cacheVars, dialVars, verifyVars, connVars, svcVars, virtVars>>

NextSecure ==
    \/ \E ca \in {None, Some(DomainCert)}, authorize \in BOOLEAN :
          secure(AliceCert, ca, authorize) /\ UNCHANGED storeVars /\ SecureFrame
    \/ \E ourCert \in {AliceCert, AnonymousCert}, authorize \in BOOLEAN :
          connected(DomainD, ourCert, authorize) /\ UNCHANGED storeVars /\ SecureFrame
    \/ \E certificate \in IdentifyCerts :
          identified(certificate) /\ UNCHANGED storeVars /\ SecureFrame
    \/ (secureAnswered /\ UNCHANGED storeVars /\ SecureFrame)
    \/ (newClientConnection /\ UNCHANGED storeVars /\ SecureFrame)
    \/ \E to \in {DomainD, Anonymous}, authorize \in BOOLEAN :
          command_SECURE(to, Alice, authorize) /\ SecureFrame
    \/ \E theirCert \in IdentifyCerts : retrieved(theirCert) /\ SecureFrame

SpecSecure == InitSecure /\ [][NextSecure]_vars

MaxMethods == 2

\* The methods a listener may offer, with what trying them comes to.
Tries == { Try("tcp", TRUE, "protoT"), Try("tcp", FALSE, "refused"),
           Try("unknown", FALSE, ""), Try("ptcp", TRUE, "protoP") }

MethodLists == UNION { [1..n -> Tries] : n \in 0..MaxMethods }

\* What the chooser may return: no listener, one, or two.
ChosenLists == {<<>>} \cup { <<l>> : l \in MethodLists }
               \cup { <<l, m>> : l, m \in MethodLists }

InitConnect ==
    /\ DialIdle
    /\ VerifyIdle
    /\ ServiceStart(EmptyDict, BobCert)
    /\ StoreStart(EmptyDict, EmptyDict, EmptyDict)
    /\ SignIdle
    /\ CacheStart
    /\ SecureIdle
    /\ \E dispatcher \in BOOLEAN, listeners \in ChosenLists :
          ConnectStart(dispatcher, listeners)
    /\ AddrIdle
    /\ SpliceIdle
    /\ MoreIdle

\* The parts of the model connect does not touch.
ConnectFrame == UNCHANGED <<moreVars, addrVars, spliceVars, storeVars, signVars, cacheVars, secVars, dialVars,
                            verifyVars, connVars, svcVars, virtVars>>

NextConnect ==
    \/ (gotListeners /\ ConnectFrame)
    \/ \E i \in 1..Len(chains) : attemptDone(i) /\ ConnectFrame

SpecConnect == InitConnect /\ [][NextConnect]_vars

MaxNameLen == 2

\* The characters of the names: a letter and the separator.
NameChars == {"d", "@"}

Names == UNION { [1..n -> NameChars] : n \in 0..MaxNameLen }

Addresses == { Q2QAddress(domain, resource) :
                  domain \in Names, resource \in {None} \cup { Some(n) : n \in Names } }

InitAddr ==
    /\ DialIdle
    /\ VerifyIdle
    /\ ServiceStart(EmptyDict, BobCert)
    /\ StoreStart(EmptyDict, EmptyDict, EmptyDict)
    /\ SignIdle
    /\ CacheStart
    /\ SecureIdle
    /\ ConnectIdle
    /\ \E a \in Addresses : AddrStart(a, "new")
    /\ SpliceIdle
    /\ MoreIdle

\* The parts of the model the address functions do not touch.
AddrFrame == UNCHANGED <<moreVars, connectVars, spliceVars, storeVars, signVars, cacheVars, secVars,
                         dialVars, verifyVars, connVars, svcVars, virtVars>>

NextAddr ==
    \/ (addrStr /\ AddrFrame)
    \/ (addrParse /\ AddrFrame)

SpecAddr == InitAddr /\ [][NextAddr]_vars

MaxPayload == 2

\* What the connector's sub-protocol writes: up to MaxPayload bytes, line
\* ends among them.
Payloads == UNION { [1..n -> {"x", "\r", "\n"}] : n \in 0..MaxPayload }

\* The byte streams that arrive on the port: the connector's for the
\* pending reservation and for one that is not pending, and a stranger's.
SpliceStreams ==
    { connectorStream(id, written) : id \in {ReservedId, <<"8">>}, written \in Payloads }
    \cup { <<"G", "E", "T", "\r", "\n">>, <<"G", "E", "T", " ", "7", "\r", "\n">> }

InitSplice ==
    /\ DialIdle
    /\ VerifyIdle
    /\ ServiceStart(EmptyDict, BobCert)
    /\ StoreStart(EmptyDict, EmptyDict, EmptyDict)
    /\ SignIdle
    /\ CacheStart
    /\ SecureIdle
    /\ ConnectIdle
    /\ AddrIdle
    /\ \E stream \in SpliceStreams : SpliceStart(stream)
    /\ MoreIdle

\* The parts of the model the splice port's byte stream does not touch.
SpliceFrame == UNCHANGED <<moreVars, connectVars, addrVars, storeVars, signVars, cacheVars,
                           secVars, dialVars, verifyVars, connVars, svcVars, virtVars>>

NextSplice ==
    \E n \in 1..(Len(spliceStream) - spliceAt) : spliceChunk(n) /\ SpliceFrame

SpecSplice == InitSplice /\ [][NextSplice]_vars

-----------------------------------------------------------------------------
(***************************************************************************)
(* The claims.                                                             *)
(***************************************************************************)

\* Index of the first attempt that succeeds, 0 if none does.
FirstOk(fs) ==
    IF \E k \in 1..Len(fs) : fs[k].ok
    THEN CHOOSE k \in 1..Len(fs) : fs[k].ok /\ \A j \in 1..(k-1) : ~fs[j].ok
    ELSE 0

\* C1: on a non-empty list, the dial yields the success of the first attempt
\* that succeeds after all earlier ones failed; when all n fail it fails
\* with AttemptsFailed carrying the n reasons in attempt order.
C1_DialFirstSuccess ==
    (dialPc = "done" /\ Len(funcsAndArgs) > 0) =>
        LET k == FirstOk(funcsAndArgs) IN
        IF k > 0
        THEN dialResult = Succeeded(funcsAndArgs[k].v)
        ELSE dialResult = Failed("AttemptsFailed",
                 [i \in 1..Len(funcsAndArgs) |-> funcsAndArgs[i].v])

C1_Witness ==
    /\ dialPc = "done"
    /\ Len(funcsAndArgs) = 3
    /\ dialResult.kind = "AttemptsFailed"
    /\ dialResult.reasons = <<"refused", "timedOut", "refused">>

\* The three ways the peer certificate can back the claimed identities.
TheirDomainIssued ==
    claimedAsIssuerOf(domainAddress(vTheirAddress), vPeerCert)
CaseA ==
    /\ TheirDomainIssued
    /\ (vPeerCert.subject = Str(vTheirAddress)
        \/ vPeerCert.subject = Str(domainAddress(vTheirAddress)))
CaseB == vPeerCert.issuer = Str(domainAddress(vOurAddress))
CaseC == vPeerCert.issuer = Str(vOurAddress)
OurCertSane == vOurCert.issuer = Str(domainAddress(vOurAddress))

\* C2 as stated: the call succeeds iff (1) the peer claims to be anonymous
\* on a connection that is not authorized, or (2) our domain issued our
\* certificate and one of (a), (b), (c) holds; it fails otherwise.
C2_Original ==
    vResult # "none" =>
        (vResult = "ok" <=>
            \/ (vTheirAddress.domain = <<>> /\ ~vAuthorized)
            \/ (OurCertSane /\ (CaseA \/ CaseB \/ CaseC)))

\* C2 amended: (2) applies only on an authorized connection, and (b) and (c)
\* apply only when the peer certificate was not issued by the claimed
\* peer domain.
C2_VerifyIff ==
    vResult # "none" =>
        (vResult = "ok" <=>
            \/ (vTheirAddress.domain = <<>> /\ ~vAuthorized)
            \/ (vAuthorized /\ OurCertSane
                /\ (CaseA \/ (~TheirDomainIssued /\ (CaseB \/ CaseC)))))

\* An authorized call where the peer's certificate is issued by the domain
\* both sides claim but names another user: rejected although (b) holds.
C2_Witness ==
    /\ vResult = "VerifyError"
    /\ vAuthorized
    /\ OurCertSane
    /\ TheirDomainIssued /\ ~CaseA /\ CaseB

\* C3: after Q2Q.connectionLost of a connection, no list of
\* listeningClients holds a value whose connection it is, whatever LISTEN
\* commands it handled before.
C3_LostConnectionNotListed ==
    \A q \in Servers :
        connState[q] = "lost" =>
            \A key \in DOMAIN listeningClients :
                \A i \in 1..Len(listeningClients[key]) :
                    listeningClients[key][i].conn # q

\* c1 is lost after two registrations under (Alice, Echo), while c2 is
\* still registered under the same key.
C3_Witness ==
    /\ connState["c1"] = "lost"
    /\ listened["c1"] = 2
    /\ connState["c2"] = "open"
    /\ <<Alice, Echo>> \in DOMAIN listeningClients
    /\ Len(listeningClients[<<Alice, Echo>>]) = 1
    /\ listeningClients[<<Alice, Echo>>][1].conn = "c2"

\* C4: every VirtualTransport that has not had connectionLost called is
\* the entry of its owner's connections map under its id, and once
\* connectionLost has been called on it the map has no entry for its id.
C4_LiveTransportIsRegistered ==
    \A i \in 1..Len(vts) :
        LET v == vts[i] IN
        /\ v.told = 0 => /\ v.id \in DOMAIN connections[v.q2q]
                         /\ connections[v.q2q][v.id] = i
        /\ v.told > 0 => v.id \notin DOMAIN connections[v.q2q]

\* The server end of a channel has had connectionLost called (by a CLOSE
\* command) while the client end is still live.
C4_Witness ==
    \E i, j \in 1..Len(vts) :
        /\ vts[i].q2q = "p1" /\ vts[i].started /\ vts[i].told = 0
        /\ vts[i].disconnecting
        /\ vts[j].q2q = "c1" /\ vts[j].id = vts[i].id
        /\ vts[j].told = 1 /\ vts[j].protoLost = 1
        /\ connState["c1"] = "open"

\* C5: once the timer of a reservation has fired the table has no entry
\* for its id, and every VIRTUAL or direct splice for that id that arrives
\* afterwards fails.
C5_ExpiredReservationIsGone ==
    /\ \A id \in DOMAIN timers :
          timers[id] = "fired" => id \notin DOMAIN inboundConnections
    /\ lastClaim.timer = "fired" => lastClaim.result \in {"failed", "refused"}

\* A VIRTUAL for an id whose timer had fired, refused.
C5_Witness ==
    /\ lastClaim.via = "virtual"
    /\ lastClaim.timer = "fired"
    /\ lastClaim.result = "failed"

\* C6: a reservation claimed by VIRTUAL or by a 'Q2Q id' line on the
\* direct-splice port is out of the table and its timer is cancelled, so
\* the timer does not fire afterwards.
C6_ClaimCancelsTimer ==
    lastClaim.result \in {"claimed", "raised"} =>
        /\ lastClaim.id \notin DOMAIN inboundConnections
        /\ timers[lastClaim.id] = "cancelled"

\* C7: for every reservation, a pending timer means the waiter is in
\* inboundConnections under the id, and a fired timer means the table has
\* no entry for the id.
C7_TimerMatchesTable ==
    \A id \in DOMAIN timers :
        /\ timers[id] = "pending" => id \in DOMAIN inboundConnections
        /\ timers[id] = "fired" => id \notin DOMAIN inboundConnections

\* C8: after Q2Q.connectionLost every virtual channel of the connection
\* has been told connectionLost and every observer has run exactly once,
\* whichever of them raised.
C8_LossReachesAll ==
    \A q \in Servers :
        connState[q] = "lost" =>
            /\ \A i \in 1..Len(vts) : vts[i].q2q = q => vts[i].told = 1
            /\ \A k \in 1..Len(connectionObservers[q]) :
                  connectionObservers[q][k].calls = 1

\* c1 lost with two channels and two observers, the first channel's
\* protocol and the first observer both raising.
C8_Witness ==
    /\ connState["c1"] = "lost"
    /\ Len(vts) = 2
    /\ vts[1].q2q = "c1" /\ vts[2].q2q = "c1"
    /\ vts[1].started /\ vts[1].protocolFactory.lostRaises
    /\ vts[2].told = 1 /\ vts[2].protoLost = 1
    /\ Len(connectionObservers["c1"]) = 2
    /\ connectionObservers["c1"][1].raises
    /\ connectionObservers["c1"][2].calls = 1

IsPrefix(s, t) == Len(s) <= Len(t) /\ s = SubSeq(t, 1, Len(s))

\* C9: the data a protocol is given on one end of a channel is a prefix
\* of the data written on the other end, in the order written; and when an
\* end handles the CLOSE command of a channel it has handled as many WRITE
\* commands of the channel as were written before loseConnection.
C9_WritesAndCloseInOrder ==
    \A i, j \in 1..Len(vts) :
        (vts[i].id = vts[j].id /\ vts[i].q2q \in Ends /\ vts[j].q2q = peer(vts[i].q2q)) =>
            /\ IsPrefix(vts[j].recv, vts[i].sent)
            /\ vts[j].seenAtClose >= 0 => vts[j].seenAtClose = vts[i].sentAtClose

\* An end was given both pieces of data in order and then handled the
\* CLOSE command that followed them.
C9_Witness ==
    \E i, j \in 1..Len(vts) :
        /\ vts[i].id = vts[j].id /\ vts[i].q2q = "c1" /\ vts[j].q2q = "p1"
        /\ vts[i].sent = <<1, 2>> /\ vts[i].sentAtClose = 2
        /\ vts[j].recv = <<1, 2>> /\ vts[j].seenAtClose = 2
        /\ vts[j].told > 0

\* The entries of INBOUND answers sent or in the making.
ReplyEntries ==
    { lastReply.listeners[k] : k \in 1..Len(lastReply.listeners) }
      \cup (IF inbound = None THEN {}
            ELSE { inbound[1].result[k] : k \in 1..Len(inbound[1].result) })

\* C10: every entry of an INBOUND answer that was relayed from a listening
\* client has as certificate the peer certificate of the connection the
\* INBOUND was forwarded to.
C10_RelayedCertificateIsPeers ==
    \A e \in ReplyEntries :
        e.via # "local" => e.certificate = Some(sec[e.via].peerCert)

\* An answer sent with the entry of a client that named the domain's
\* certificate, now carrying the certificate of c1's peer.
C10_Witness ==
    /\ lastReply.cmd = "inbound"
    /\ \E k \in 1..Len(lastReply.listeners) :
          /\ lastReply.listeners[k].description = "forged"
          /\ lastReply.listeners[k].via = "c1"
          /\ lastReply.listeners[k].certificate = Some(AliceCert)

\* C11: every method of an entry relayed from a listening client is a TCP,
\* PTCP or RPTCP method, and no relayed entry is without methods.
C11_OnlyHostPortMethodsRelayed ==
    \A e \in ReplyEntries :
        e.via # "local" =>
            /\ e.methods # <<>>
            /\ \A k \in 1..Len(e.methods) :
                  e.methods[k].kind \in {"tcp", "ptcp", "rptcp"}

\* S has no local factory and no listening client for (Alice, Echo).
NobodyServesAliceEcho ==
    /\ getLocalFactories(Bob, Alice, Echo) = <<>>
    /\ \/ <<Alice, Echo>> \notin DOMAIN listeningClients
       \/ listeningClients[<<Alice, Echo>>] = <<>>

\* C12: an INBOUND for (Alice, Echo) that passes verification while S has
\* no local factory and no listening client for it, the clients that once
\* listened being gone, is answered with NotFound.
C12_NotFoundWhenNobodyServes ==
    [][(/\ NobodyServesAliceEcho
        /\ inbound = None
        /\ lastReply' # lastReply
        /\ lastReply'.cmd = "inbound"
        /\ lastReply'.kind # "VerifyError")
       => lastReply'.kind = "NotFound"]_vars

\* Two getSecureConnection calls made for the same from address, the same
\* destination domain and the same authorize flag.
SameSecureArgs(a, b) ==
    /\ gscCalls[a].From = gscCalls[b].From
    /\ domainAddress(gscCalls[a].to) = domainAddress(gscCalls[b].to)
    /\ gscCalls[a].authorize = gscCalls[b].authorize

C14_StopLeavesNoTimer ==
    [][(service.running /\ ~service'.running)
       => /\ inboundConnections' = EmptyDict
          /\ \A id \in DOMAIN timers' : timers'[id] # "pending"]_vars

\* C15: a first line on a direct-splice connection whose command word is
\* not Q2Q, or whose id has no reservation, makes the listener call
\* loseConnection, attaches nothing and leaves the reservation table and
\* its timers as they were.
C15_BadSpliceLineCloses ==
    [][(/\ lastClaim' # lastClaim
        /\ lastClaim'.via = "splice"
        /\ lastClaim'.result \in {"refused", "failed"})
       => /\ lastClaim'.loseConnection
          /\ inboundConnections' = inboundConnections
          /\ timers' = timers]_vars

\* C16: a SECURE command handled on, or a secure() call made on, a
\* connection whose hostCertificate is set ends in RuntimeError (which
\* closes the connection on the server), starts no TLS, sends nothing and
\* leaves authorized and hostCertificate as they were.
C16_NoSecondSecure ==
    [][/\ (/\ nSecure' = nSecure + 1
           /\ lastSecure'.end = "server"
           /\ overlay["server"].hostCertificate # None)
          => /\ lastSecure'.kind = "RuntimeError"
             /\ overlay'["server"].closed
             /\ overlay'["server"].tls = overlay["server"].tls
             /\ overlay'["server"].authorized = overlay["server"].authorized
             /\ overlay'["server"].hostCertificate = overlay["server"].hostCertificate
             /\ pendingSecure' = pendingSecure
       /\ (/\ nSecure' = nSecure + 1
           /\ lastSecure'.end = "client"
           /\ overlay["client"].hostCertificate # None)
          => /\ lastSecure'.kind = "RuntimeError"
             /\ overlay' = overlay
             /\ outSecure' = outSecure]_vars

\* The server has answered one SECURE, started TLS once, and refused the
\* next SECURE with RuntimeError.
C16_Witness ==
    /\ lastSecure = SecureNote("server", "RuntimeError", TRUE)
    /\ overlay["server"].closed
    /\ Len(overlay["server"].tls) = 1
    /\ overlay["server"].hostCertificate = Some(DomainCert)

\* The TLS an end of the connection started last.
LastTLS(e) == overlay[e].tls[Len(overlay[e].tls)]

\* C17 as stated: an end is authorized only if it has started TLS, for a
\* SECURE with authorize = true, verifying its peer's certificate.
C17_Original ==
    \A e \in SecureEnds :
        overlay[e].authorized =>
            /\ overlay[e].tls # <<>>
            /\ LastTLS(e).verify # None
            /\ LastTLS(e).authorize

\* C17 amended: an end is authorized only if it has started TLS verifying
\* its peer's certificate; on the server that SECURE had authorize = true,
\* on the client the authorize flag does not matter (secure() authorizes
\* whenever it is given a certificate authority to verify against).
C17_AuthorizedMeansPeerVerified ==
    \A e \in SecureEnds :
        overlay[e].authorized =>
            /\ overlay[e].tls # <<>>
            /\ LastTLS(e).verify # None
            /\ e = "server" => LastTLS(e).authorize

\* The client is authorized after a Secure with authorize = false for
\* which it verifies the server's certificate.
C17_Witness ==
    /\ overlay["client"].authorized
    /\ Len(overlay["client"].tls) = 1
    /\ ~LastTLS("client").authorize
    /\ LastTLS("client").verify = Some(DomainCert)

\* C18: every certificate in a remote certificate store, the client's and
\* the server's, has the name it is stored under as its subject and as its
\* issuer.
C18_LearnedCertIsSelfSigned ==
    /\ \A d \in DOMAIN clientRemote :
           clientRemote[d].subject = d /\ clientRemote[d].issuer = d
    /\ \A d \in DOMAIN remoteStore :
           remoteStore[d].subject = d /\ remoteStore[d].issuer = d

\* The subject of a Sign request is exactly one CN of the form user@domain.
WellFormedSubject(request) ==
    /\ request.certificate_request.keys = <<"CN">>
    /\ Len(split(request.certificate_request.commonName, "@")) = 2

\* The password of a Sign request is the secret stored for its (domain, user).
SecretMatches(request) ==
    /\ WellFormedSubject(request)
    /\ LET parts == split(request.certificate_request.commonName, "@") IN
       /\ <<parts[2], parts[1]>> \in DOMAIN users
       /\ users[<<parts[2], parts[1]>>] = request.password

\* C19: command_SIGN answers with a certificate only when the password is
\* the secret stored for (domain, user), and the certificate then has
\* subject user@domain and issuer domain; for a well-formed request with
\* another password it answers NoSuchUser and signs nothing; and
\* requestCertificateForAddress stores a private certificate only after a
\* Sign whose password matched.
C19_SignNeedsTheSecret ==
    [][/\ (signReq # None /\ signReq' = None) =>
            LET request == signReq[1]
                cn == request.certificate_request.commonName
            IN /\ lastSign'.kind = "ok" =>
                    /\ SecretMatches(request)
                    /\ lastSign'.certificate # None
                    /\ lastSign'.certificate[1].subject = cn
                    /\ lastSign'.certificate[1].issuer = split(cn, "@")[2]
               /\ (WellFormedSubject(request) /\ ~SecretMatches(request)) =>
                    /\ lastSign'.kind = "NoSuchUser"
                    /\ lastSign'.certificate = None
                    /\ signed' = signed
       /\ clientLocal' # clientLocal =>
            /\ signAnswer # None
            /\ SecretMatches(signAnswer[1].request)]_vars

\* bob@d has got its certificate with its secret; a later request for a@d
\* with a wrong secret was answered NoSuchUser and stored nothing.
C19_Witness ==
    /\ lastSign.kind = "NoSuchUser"
    /\ lastSign.request.requester = Some(Alice)
    /\ WellFormedSubject(lastSign.request) /\ ~SecretMatches(lastSign.request)
    /\ signAnswer = None /\ signReq = None
    /\ Str(Alice) \notin DOMAIN clientLocal
    /\ Str(Bob) \in DOMAIN clientLocal
    /\ clientLocal[Str(Bob)] = Cert(Str(DomainD), Str(Bob))
    /\ signed = {Cert(Str(DomainD), Str(Bob))}

\* C20: command_SIGN answers BadCertificateRequest, with no certificate,
\* to every request whose subject is not exactly one CN of the form
\* user@domain.
C20_MalformedSubjectIsBadRequest ==
    (lastSign # NoSignAnswer /\ ~WellFormedSubject(lastSign.request)) =>
        /\ lastSign.kind = "BadCertificateRequest"
        /\ lastSign.certificate = None

\* C21: a LISTEN whose protocol list holds a name starting with '.', at
\* any position, is answered with VerifyError.
C21_DottedNameRejected ==
    (/\ lastReply.cmd = "listen"
     /\ \E k \in 1..Len(lastReply.protocols) :
             lastReply.protocols[k] # <<>> /\ Head(lastReply.protocols[k]) = ".")
    => lastReply.kind = "VerifyError"

\* A LISTEN from a peer allowed to speak for a@d, with the internal name
\* second in its list, was rejected.
C21_Witness ==
    /\ lastReply = ListenAnswer("c1", "VerifyError", <<Echo, Internal>>)
    /\ verifyOn("c1", Alice, Alice) = "ok"


\* The chain of a listener with these methods fails: none of them connects.
ChainFails(methods) ==
    \A k \in 1..Len(methods) : ~methodAttempt(methods[k]).ok

\* C22: once connect has its result, it is NoAttemptsMade when the chooser
\* returned no listener, AttemptsFailed when it returned some and the chain
\* of each fails, and otherwise the protocol of a chosen listener whose
\* chain succeeded.
C22_ConnectResult ==
    connectPc = "done" =>
        IF chosen = <<>> THEN connectResult.kind = "NoAttemptsMade"
        ELSE IF \A i \in 1..Len(chosen) : ChainFails(chosen[i])
        THEN connectResult.kind = "AttemptsFailed"
        ELSE /\ connectResult.kind = "success"
             /\ \E i \in 1..Len(chosen) :
                   /\ ~ChainFails(chosen[i])
                   /\ \E k \in 1..Len(chosen[i]) :
                         /\ methodAttempt(chosen[i][k]).ok
                         /\ connectResult.value = chosen[i][k].v

C22_Witness ==
    /\ connectPc = "done"
    /\ hasDispatcher
    /\ chosen = << <<Try("unknown", FALSE, "")>>,
                   <<Try("tcp", FALSE, "refused"), Try("ptcp", TRUE, "protoP")>> >>
    /\ connectResult = Succeeded("protoP")

\* Method k of these fails as soon as it is tried: it is unknown, or its
\* attemptConnect raises.
FailsAtOnce(m) == methodAttempt(m).when = "now" /\ ~methodAttempt(m).ok

InLog(c, e) == \E j \in 1..Len(c.log) : c.log[j] = e

\* C25: in the chain of one listener attempt k+1 starts only right after
\* attempt k failed, so never after a success and never beside an attempt
\* in flight; an unknown method, or one whose attemptConnect raises,
\* is a failed attempt after which the next method is tried.
C25_AttemptsInTurn ==
    \A i \in 1..Len(chains) :
        LET c == chains[i] IN
        /\ \A j \in 1..Len(c.log) :
              IF c.log[j][1] = "start"
              THEN IF c.log[j][2] = 1 THEN j = 1
                   ELSE j > 1 /\ c.log[j - 1] = <<"fail", c.log[j][2] - 1>>
              ELSE j > 1 /\ c.log[j - 1] = <<"start", c.log[j][2]>>
        /\ \A k \in 1..Len(c.methods) :
              (FailsAtOnce(c.methods[k]) /\ InLog(c, <<"start", k>>)) =>
                  /\ InLog(c, <<"fail", k>>)
                  /\ k < Len(c.methods) => InLog(c, <<"start", k + 1>>)

C25_Witness ==
    /\ ~hasDispatcher
    /\ Len(chains) = 1
    /\ chains[1].methods = <<Try("ptcp", TRUE, "protoP"), Try("tcp", TRUE, "protoT")>>
    /\ chains[1].log = << <<"start", 1>>, <<"fail", 1>>, <<"start", 2>>, <<"ok", 2>> >>
    /\ chains[1].result = Succeeded("protoT")


HasAt(str) == \E k \in 1..Len(str) : str[k] = "@"

\* The addresses the textual form tells apart: a bare domain without '@',
\* or a resource that is neither empty nor holds an '@'.
Representable(a) ==
    IF a.resource = None THEN ~HasAt(a.domain)
    ELSE a.resource[1] # <<>> /\ ~HasAt(a.resource[1])

\* C23 as stated: fromString(str(a)) == a for every address a.
C23_Original == addrPc = "parsed" => addrOut = addrIn

\* C23: fromString(str(a)) == a exactly for the addresses whose resource is
\* None with a domain free of '@', or whose resource is non-empty and free
\* of '@'; every other address comes back as a different one.
C23_RoundTripWhenRepresentable ==
    addrPc = "parsed" => (addrOut = addrIn <=> Representable(addrIn))

C23_Witness ==
    /\ addrPc = "parsed"
    /\ addrIn = Q2QAddress(<<"d", "@">>, Some(<<"d", "d">>))
    /\ addrText = <<"d", "d", "@", "d", "@">>
    /\ addrOut = addrIn


\* A command refused with a verify error that left the reservations, the
\* listener registry and the NAT seeds as they were and passed nothing on.
RefusedWithoutEffect ==
    /\ lastReply'.kind = "VerifyError"
    /\ UNCHANGED <<inboundConnections, timers, lastConnID, listeningClients,
                   listeningClient, listened, natSeeds, inbound>>

\* C24: whenever verifyCertificateAllowed fails in INBOUND, LISTEN or
\* BIND-UDP, the command makes no reservation, registers no listener, seeds
\* no NAT hole and forwards no command; on a connection that is not
\* authorized it fails for every peer identity but the anonymous one.
C24_VerifyBeforeEffects ==
    [][ /\ \A q \in Servers, From \in {Alice, Bob, Anonymous} :
              (/\ command_LISTEN(q, <<Echo>>, From, "home")
               /\ (verifyOn(q, From, From) = "VerifyError"
                   \/ (~sec[q].authorized /\ From # Anonymous)))
              => RefusedWithoutEffect
        /\ \A q \in Servers, From \in {Bob, Anonymous}, udp \in UdpSources :
              (/\ command_INBOUND(q, From, Alice, Echo, udp)
               /\ (verifyOn(q, Alice, From) = "VerifyError"
                   \/ (~sec[q].authorized /\ From # Anonymous)))
              => RefusedWithoutEffect
        /\ \A q \in Servers, q2qdst \in {Bob, Anonymous}, srchost \in UdpHosts :
              (/\ command_BIND_UDP(q, Alice, q2qdst, <<srchost, "srcPort">>, "dst", Echo)
               /\ (verifyOn(q, Alice, q2qdst) = "VerifyError"
                   \/ (~sec[q].authorized /\ q2qdst # Anonymous)))
              => RefusedWithoutEffect ]_vars

\* BIND-UDP refused on a connection that is not authorized while a binder
\* for it, a listening client at the source host, is registered.
C24_Witness ==
    /\ lastReply = Answer("bind_udp", "c2", "VerifyError", <<>>)
    /\ ~sec["c2"].authorized
    /\ <<Alice, Echo>> \in DOMAIN listeningClients
    /\ \E i \in 1..Len(listeningClients[<<Alice, Echo>>]) :
          peerHost(listeningClients[<<Alice, Echo>>][i].conn) = "client"
    /\ natSeeds = {}


\* The bytes of str that follow its first CR LF (none when it has none).
RECURSIVE AfterFirstCRLF(_)
AfterFirstCRLF(str) ==
    IF Len(str) < 2 THEN <<>>
    ELSE IF str[1] = "\r" /\ str[2] = "\n" THEN SubSeq(str, 3, Len(str))
    ELSE AfterFirstCRLF(Tail(str))

\* C26: on a connection whose line 'Q2Q <id>' names the pending
\* reservation, what the reserved sub-protocol has received is at every
\* moment the bytes that have arrived after the first CR LF, whatever the
\* chunks; once the line's end has arrived the sub-protocol is connected.
C26_SplicedBytesExact ==
    (\E written \in Payloads : spliceStream = connectorStream(ReservedId, written))
    => /\ listener.lost = ""
       /\ listener.out = AfterFirstCRLF(SubSeq(spliceStream, 1, spliceAt))
       /\ spliceAt >= Len(connectorStream(ReservedId, <<>>))
             => listener.subProtocol = Some(ReservedId)

\* The line split inside the command word and between CR and LF, the
\* payload itself a CR LF split in two.
C26_Witness ==
    /\ spliceStream = connectorStream(ReservedId, <<"\r", "\n">>)
    /\ listener.chunks = <<2, 4, 2, 1>>
    /\ listener.subProtocol = Some(ReservedId)
    /\ listener.out = <<"\r", "\n">>


\* C27: on its way to the client no WRITE for a channel is ahead of the
\* answer to the VIRTUAL that opened it, and while the client's connection
\* is up nothing reaches a client sub-protocol that its factory builds
\* before its connectionMade.
C27_AnswerBeforeData ==
    /\ \A k \in 1..Len(wire["p1"]) :
          wire["p1"][k].cmd = "write" =>
              \A j \in (k + 1)..Len(wire["p1"]) :
                  wire["p1"][j] # AnswerBox("virtual", wire["p1"][k].id, TRUE)
    /\ \A i \in 1..Len(vts) :
          (/\ vts[i].isClient
           /\ ~vts[i].protocolFactory.buildRaises
           /\ connState["p1"] = "open"
           /\ vts[i].told > 0)
          => vts[i].started

\* The answer to a successful VIRTUAL on its way to the client, followed by
\* what the server's sub-protocol wrote in connectionMade.
C27_Witness ==
    /\ lastReply = Answer("virtual", "c1", "ok", <<>>)
    /\ \E id \in VirtIds :
          wire["p1"] = <<AnswerBox("virtual", id, TRUE), WriteBox(id, 1)>>
    /\ \E i \in 1..Len(vts) : ~vts[i].isClient /\ vts[i].started /\ vts[i].sent = <<1>>


\* The answer to the client's VIRTUAL for id is still to come: the command
\* or its answer is on the way.
VirtualUnanswered(id) ==
    \/ \E k \in 1..Len(wire["c1"]) : wire["c1"][k] = VirtualBox(id)
    \/ \E k \in 1..Len(wire["p1"]) :
          wire["p1"][k].cmd = "answer" /\ wire["p1"][k].body = "virtual"
          /\ wire["p1"][k].id = id

\* C28: the client's connections map holds a transport for id only once
\* the answer to VIRTUAL(id) has arrived, and holds none for id after
\* VIRTUAL(id) has failed.
C28_ClientEntryOnlyAfterAnswer ==
    \A id \in DOMAIN connections["p1"] :
        /\ ~VirtualUnanswered(id)
        /\ ~(lastClaim = Claim(id, "virtual", "failed")
             /\ lastReply = Answer("virtual", "c1", "KeyError", <<>>))


Closing(id) == \E i \in 1..Len(vts) : vts[i].id = id /\ vts[i].disconnecting

\* Neither end holds an entry for id, and every sub-protocol that was
\* started for it has received connectionLost.
ClosedAtBothEnds(id) ==
    /\ \A q \in Ends : id \notin DOMAIN connections[q]
    /\ \A i \in 1..Len(vts) :
          (vts[i].id = id /\ vts[i].started) => vts[i].protoLost >= 1

\* C29: loseConnection sends CLOSE and leaves connections as it is; the
\* entry goes when the answer to CLOSE is handled, the peer's when it
\* handles the CLOSE; and once loseConnection has been called on a channel,
\* the channel is eventually closed at both ends unless the connection
\* itself is lost.
C29_CloseReachesBothEnds ==
    /\ [][ \A i \in 1..Len(vts) :
              (loseConnection(i) /\ UNCHANGED <<extVars, dialVars, verifyVars>>)
              => /\ connections' = connections
                 /\ connState[peer(vts[i].q2q)] = "open" =>
                        wire'[peer(vts[i].q2q)] =
                            Append(wire[peer(vts[i].q2q)], CloseBox(vts[i].id)) ]_vars
    /\ \A id \in VirtIds :
          Closing(id) ~> (\/ ClosedAtBothEnds(id)
                          \/ \E q \in Ends : connState[q] = "lost")

\* The client closed the channel: both entries are gone and both
\* sub-protocols were told, with the connection still up.
C29_Witness ==
    \E i, j \in 1..Len(vts) :
        /\ vts[i].q2q = "p1" /\ vts[i].disconnecting /\ ~vts[i].asking
        /\ vts[j].q2q = "c1" /\ vts[j].id = vts[i].id /\ ~vts[j].disconnecting
        /\ vts[i].protoLost = 1 /\ vts[j].protoLost = 1
        /\ ClosedAtBothEnds(vts[i].id)
        /\ \A q \in Ends : connState[q] = "open"


\* C31: every listener entry of an INBOUND answer that was built for a
\* local factory lists the virtual method, as the last of its methods.
C31_VirtualMethodComesLast ==
    lastReply.cmd = "inbound" =>
        \A k \in 1..Len(lastReply.listeners) :
            lastReply.listeners[k].via = "local" =>
                /\ lastReply.listeners[k].methods # <<>>
                /\ lastReply.listeners[k].methods[Len(lastReply.listeners[k].methods)]
                       = VirtualMethod

\* No inbound TCP port and no dispatcher although the peer named a UDP
\* source: the virtual method is the only one offered.
C31_Witness ==
    /\ service.inboundTCPPort = None
    /\ ~service.dispatcher
    /\ lastReply.cmd = "inbound" /\ lastReply.kind = "ok"
    /\ Len(lastReply.listeners) = 2
    /\ \A k \in 1..2 : lastReply.listeners[k].methods = <<VirtualMethod>>
    /\ natSeeds = {}

\* C32: connected() issues Identify for a domain only when the client's
\* remote certificate store has no certificate for it; when the Identify
\* answer arrives the store holds a certificate for that domain; and no
\* step takes a domain out of the store, so every later connected() for
\* that domain issues no Identify.
C32_IdentifyOnlyWhenUnknown ==
    [][/\ (identPending = None /\ identPending' # None)
          => Str(identPending'[1].toDomain) \notin DOMAIN clientRemote
       /\ (identPending # None /\ identPending' = None)
          => Str(identPending[1].toDomain) \in DOMAIN clientRemote'
       /\ \A d \in DOMAIN clientRemote : d \in DOMAIN clientRemote']_vars

\* The certificate of the domain was learned by Identify on one
\* connection, and connected() on a later connection has sent Secure with
\* the stored certificate, asking nothing.
C32_Witness ==
    /\ Str(DomainD) \in DOMAIN clientRemote
    /\ nSecure = 2
    /\ identPending = None
    /\ overlay["client"].hostCertificate = None
    /\ Len(outSecure) = 1
    /\ outSecure[1].foreignCertificateAuthority = Some(clientRemote[Str(DomainD)])
    /\ lastSecure = SecureNote("client", "sent", FALSE)

\* How often value occurs in the list s.
Occurrences(s, value) == Cardinality({k \in 1..Len(s) : s[k] = value})

\* How many items of listenQ2Q's call i put the pair under the key.
ItemsOf(i, key, pair) ==
    Cardinality({j \in 1..Len(listens[i].protocolsToFactories) :
                    /\ <<listens[i].fromAddress, listens[i].protocolsToFactories[j][1]>> = key
                    /\ <<listens[i].protocolsToFactories[j][2],
                         listens[i].serverDescription>> = pair})

RECURSIVE RegisteredItems(_, _, _)
\* The same over the calls 1..n that are registered.
RegisteredItems(n, key, pair) ==
    IF n = 0 THEN 0
    ELSE RegisteredItems(n - 1, key, pair)
         + (IF listens[n].stage = "registered" THEN ItemsOf(n, key, pair) ELSE 0)

\* C33: the local factories of the service hold, under each (from,
\* protocol), exactly the (factory, description) pairs of the listenQ2Q
\* calls whose Listen was acknowledged on a connection that is still up;
\* a call whose Listen is unanswered, refused or failed has added nothing
\* and started nothing; and once its connection is lost a call's pairs are
\* out of what getLocalFactories returns, each factory it started stopped
\* exactly once.
C33_LocalFactoriesFollowListen ==
    /\ \A i \in 1..Len(listens) :
          LET call == listens[i] IN
          /\ call.stage = "registered" => secureConns[call.proto].state = "open"
          /\ (call.proto # "" /\ secureConns[call.proto].state = "lost")
                => call.stage \in {"shutdown", "failed", "refused"}
          /\ \A j \in DOMAIN call.doStart :
                /\ call.doStart[j] =
                       (IF call.stage \in {"registered", "shutdown"} THEN 1 ELSE 0)
                /\ call.doStop[j] = (IF call.stage = "shutdown" THEN 1 ELSE 0)
    /\ \A protocol \in {Echo, Chat}, factory \in {GoodFactory, SulkyFactory},
          description \in {"home", "lab"} :
          Occurrences(getLocalFactories(Bob, Alice, protocol), <<factory, description>>)
            = RegisteredItems(Len(listens), <<Alice, protocol>>, <<factory, description>>)

\* Two calls registered the same pair on two connections; one connection
\* was lost, and getLocalFactories still returns the other call's pair.
C33_Witness ==
    /\ Len(listens) = 2
    /\ listens[1].stage = "shutdown"
    /\ listens[2].stage = "registered"
    /\ listens[1].protocolsToFactories = <<<<Echo, GoodFactory>>, <<Chat, SulkyFactory>>>>
    /\ listens[2].protocolsToFactories = <<<<Echo, GoodFactory>>>>
    /\ listens[1].serverDescription = listens[2].serverDescription
    /\ getLocalFactories(Bob, Alice, Echo) = <<<<GoodFactory, "home">>>>
    /\ getLocalFactories(Bob, Alice, Chat) = <<>>

\* C34 as stated: every connection sends Source-IP when it is made, and the
\* answer becomes the connection's publicIP.
C34_Original ==
    [][\A q \in Q2Qs :
          (connState[q] = "unmade" /\ connState'[q] = "open")
             => sourceIP'[q].asked /\ sourceIP'[q].pending]_vars

\* C34 amended: a connection that is made while its Service has no public
\* IP sets the Service's public IP to its own local host address, flagged
\* really-private, and sends Source-IP; the answer becomes the connection's
\* publicIP and the service-wide public IP and clears the flag.  A
\* connection made while the Service has a public IP (configured, learned,
\* or the placeholder of an earlier connection) sends no Source-IP, changes
\* nothing of the Service, and its publicIP stays unset.  The flag is set
\* only while no answer has arrived.
C34_SourceIPOnlyWithoutServiceIP ==
    [][\A q \in Q2Qs :
          /\ (connState[q] = "unmade" /\ connState'[q] = "open") =>
                IF service.publicIP = None
                THEN /\ sourceIP'[q].asked /\ sourceIP'[q].pending
                     /\ service'.publicIP = Some(determinePrivateIP(q))
                     /\ service'.reallyPrivate
                ELSE /\ ~sourceIP'[q].asked /\ ~sourceIP'[q].pending
                     /\ service' = service
          /\ (sourceIP[q].pending /\ ~sourceIP'[q].pending /\ connState'[q] = "open") =>
                /\ publicIP'[q] # None
                /\ service'.publicIP = publicIP'[q]
                /\ ~service'.reallyPrivate
          /\ ~sourceIP'[q].asked => publicIP'[q] = None
          /\ service'.reallyPrivate => \A r \in Q2Qs : publicIP'[r] = None]_vars

\* With no public IP configured, c1 was made and awaits its Source-IP
\* answer; c2, made after it, sent no Source-IP, and its INBOUND answer
\* carries c1's local host address.
C34_Witness ==
    /\ sourceIP["c1"].pending
    /\ connState["c2"] = "open"
    /\ ~sourceIP["c2"].asked
    /\ publicIP["c2"] = None
    /\ service.reallyPrivate
    /\ lastReply.cmd = "inbound" /\ lastReply.conn = "c2" /\ lastReply.kind = "ok"
    /\ Len(lastReply.listeners) = 1
    /\ lastReply.listeners[1].methods[1] = Method("tcp", determinePrivateIP("c1"), "tcpPort")

\* The ids of the reservations an INBOUND answer lists as made here.
ReservedBy(reply) ==
    { reply.listeners[k].id : k \in { n \in 1..Len(reply.listeners) :
                                        reply.listeners[n].via = "local" } }

\* C35: the ids mapListener returns carry a number greater than that of
\* every id it returned before (timers keeps every id ever returned), the
\* ids made for one INBOUND are as many as its local factories and rise in
\* the order of the answer, and the entries inboundConnections held before
\* are all still there, unchanged.
C35_ReservationIdsIncrease ==
    [][\A q \in Servers, udp \in UdpSources :
          (command_INBOUND(q, Bob, Alice, Echo, udp) /\ lastReply'.kind = "ok") =>
             LET reply == lastReply'
                 new == ReservedBy(reply)
             IN /\ Cardinality(new) = Len(getLocalFactories(Bob, Alice, Echo))
                /\ \A id \in new :
                      /\ id \notin DOMAIN timers
                      /\ \A old \in DOMAIN timers : id[3] > old[3]
                      /\ id \in DOMAIN inboundConnections'
                      /\ id[3] < lastConnID'
                /\ \A k, n \in 1..Len(reply.listeners) :
                      (k < n /\ reply.listeners[k].via = "local"
                             /\ reply.listeners[n].via = "local")
                         => reply.listeners[k].id[3] < reply.listeners[n].id[3]
                /\ \A old \in DOMAIN inboundConnections :
                      /\ old \in DOMAIN inboundConnections'
                      /\ inboundConnections'[old] = inboundConnections[old]
                /\ DOMAIN inboundConnections' = DOMAIN inboundConnections \cup new]_vars

\* A second reservation for the same pair of addresses, made after the
\* first was claimed, has the next number, and only it is in the table.
C35_Witness ==
    /\ lastConnID = 3
    /\ DOMAIN timers = {nextConnectionID(Bob, Alice, 1), nextConnectionID(Bob, Alice, 2)}
    /\ timers[nextConnectionID(Bob, Alice, 1)] = "cancelled"
    /\ DOMAIN inboundConnections = {nextConnectionID(Bob, Alice, 2)}
    /\ lastReply.cmd = "inbound"
    /\ ReservedBy(lastReply) = {nextConnectionID(Bob, Alice, 2)}

\* C36: a LISTEN that is answered with VerifyError (the certificate check
\* failed, or a name of its list starts with '.') leaves the service's
\* listeningClients and the connection's listeningClient as they were.
C36_RejectedListenRegistersNothing ==
    [][\A q \in Servers, protocols \in ListenProtocolLists, From \in {Alice, Bob},
          description \in Descriptions :
          (command_LISTEN(q, protocols, From, description)
             /\ lastReply'.kind = "VerifyError")
          => /\ listeningClients' = listeningClients
             /\ listeningClient' = listeningClient]_vars

\* The claim at position k of the log took the reservation out of the table.
Took(k) == claimLog[k].result \in {"claimed", "raised"}

\* C37: of the claims made on one reservation id, by VIRTUAL on either
\* connection or by a splice line, at most one takes the reservation, so at
\* most one protocol is built from its factory, and every claim that
\* comes after the one that took it fails; a VIRTUAL claim that took the
\* reservation is the only VirtualTransport the service built for the id.
C37_ClaimedAtMostOnce ==
    /\ \A k, n \in 1..Len(claimLog) :
          (k < n /\ claimLog[k].id = claimLog[n].id /\ Took(k))
             => claimLog[n].result = "failed"
    /\ \A id \in ChannelIds :
          /\ Cardinality({k \in 1..Len(claimLog) :
                             claimLog[k].id = id /\ claimLog[k].result = "claimed"}) <= 1
          /\ Cardinality({i \in 1..Len(vts) : vts[i].id = id /\ ~vts[i].isClient})
               = Cardinality({k \in 1..Len(claimLog) :
                                 /\ claimLog[k].id = id
                                 /\ claimLog[k].via = "virtual"
                                 /\ claimLog[k].result = "claimed"})

\* One reservation was claimed by a splice line, then by VIRTUAL on c1,
\* then by VIRTUAL on c2: the first claim took it, the two others failed.
C37_Witness ==
    /\ Len(claimLog) = 3
    /\ \A k \in 1..3 : claimLog[k].id = nextConnectionID(Bob, Alice, 1)
    /\ claimLog[1].via = "splice" /\ claimLog[1].result = "claimed"
    /\ claimLog[2].via = "virtual" /\ claimLog[2].result = "failed"
    /\ claimLog[3].via = "virtual" /\ claimLog[3].result = "failed"
    /\ lastReply.conn = "c2"
    /\ vts = <<>>

\* C38: on the server end of a connection TLS is started at most once and
\* the connection is put into the secure cache at most once, whatever the
\* order of the SECURE commands and of the answers to their certificate
\* retrievals.
C38_TLSStartedOnce ==
    /\ Len(overlay["server"].tls) <= 1
    /\ overlay["server"].unrequested <= 1

\* C39: a certificate that a remote certificate store holds for a domain,
\* the server's or the client's, is still the one it holds for that
\* domain after every step.
C39_StoredCertificateStays ==
    [][/\ \A d \in DOMAIN remoteStore :
             d \in DOMAIN remoteStore' /\ remoteStore'[d] = remoteStore[d]
       /\ \A d \in DOMAIN clientRemote :
             d \in DOMAIN clientRemote' /\ clientRemote'[d] = clientRemote[d]]_vars

\* C40: the protocol of a virtual channel is told connectionLost at most
\* once, whatever the order of loseConnection (called once or again), the
\* peer's close, both ends closing, a dataReceived that raises, and the
\* loss of the connection underneath.
C40_ProtocolLostAtMostOnce ==
    \A i \in 1..Len(vts) : vts[i].protoLost <= 1

\* Both ends closed the channel, the client twice; connectionLost reached
\* the client's transport once per answer and once more for the peer's
\* close, and its protocol once.
C40_Witness ==
    \E i, j \in 1..Len(vts) :
        /\ vts[i].q2q = "p1" /\ vts[i].closeCalls = 2 /\ vts[i].closes = 0
        /\ vts[i].told = 3 /\ vts[i].protoLost = 1
        /\ vts[j].q2q = "c1" /\ vts[j].id = vts[i].id /\ vts[j].closeCalls = 1
        /\ vts[j].protoLost = 1

=============================================================================
